---- MODULE Spec2Model ----
(***************************************************************************)
(* Batching-and-delivery engine of the Tell JavaScript SDKs.               *)
(*                                                                         *)
(* One Batcher (core/src/batcher.ts) wired, as the facades wire it, to a   *)
(* retrying HTTP transport (node/src/transport.ts, browser/src/            *)
(* transport.ts): send = transport.sendEvents, onPayloadTooLarge =         *)
(* halveBatchSize.  The JavaScript run-to-completion model is kept: one    *)
(* action is one synchronous section, promise continuations are separate   *)
(* steps, and timers / network completions never run while a promise       *)
(* continuation is pending.                                                *)
(***************************************************************************)
EXTENDS Integers, Sequences, FiniteSets, TLC

\* ------------------------------------------------------------------ bounds
MaxItems == 3      \* add() calls explored
MaxQueue == 2      \* largest maxQueueSize explored
MaxSize == 2       \* largest batch size explored
MaxRetry == 1      \* largest maxRetries explored
MaxFail == 1       \* sends explored that end without the collector accepting
MaxCalls == 2      \* facade calls (track, ..., log) explored
MaxStartSize == 200  \* largest batch size a batcher is built with when only halved
MaxClientCalls == 2  \* public calls explored where the built items are followed
MaxConfigures == 2   \* configure() calls, or constructor calls, explored
MaxPushes == 4       \* push() calls on one PreInitQueue
MaxPreInitSize == 2  \* the largest maxSize a PreInitQueue is constructed with
MaxPipeline == 3     \* functions in one beforeSend pipeline
MaxAdvances == 3     \* clock advances explored against one SessionManager

VARIABLES
  queue,          \* Batcher.queue: item ids, oldest first
  closed,         \* Batcher.closed
  timer,          \* Batcher.timer !== null
  flushing,       \* Batcher.flushing: "null", or the state of the promise it holds
  size,           \* Batcher.config.size
  maxQueueSize,   \* Batcher.config.maxQueueSize
  maxRetries,     \* transport maxRetries
  runtime,        \* which transport the send is wired to: "node" | "browser"
  flights,        \* activations of doFlush, each inside one send(batch)
  joined,         \* some flush() caller was handed the in-flight promise and waits
  nextItem,       \* id the next add() call carries
  overflowCalls,  \* onOverflow invocations
  enqueued,       \* history: items pushed on the queue, in order
  sent,           \* history: items of batches the collector accepted (202/207)
  drained,        \* history: items handed out by drain()
  rejects,        \* history: sends doFlush saw reject
  unaccepted,     \* history: sends doFlush saw resolve with nothing accepted
  configured,     \* facade: `configured` (the Node client is configured once constructed)
  facadeClosed,   \* facade: `closed`
  disabled,       \* facade: `_disabled`
  closeCall,      \* facade close(): "none", "racing" (awaits Promise.race), "returned"
  closeTimer,     \* the setTimeout of close() has not fired yet
  work,           \* Promise.all of the batchers' close(): "none", "pending", "resolved"
  preInit,        \* browser PreInitQueue.items: calls made before configure()
  closedErrors,   \* ClosedError reports made through the error callback
  timeoutErrors,  \* "close timed out" reports made through the error callback
  optedOut,       \* browser facade: `_optedOut`
  userId,         \* browser facade: `userId`
  deviceId,       \* facade: `deviceId`
  sessionId,      \* facade: `sessionId` (browser: the session manager's)
  nextId,         \* the id the next uuid() / generateId() call returns
  superProperties, \* facade: `superProperties`
  storage,        \* browser: what localStorage holds under the SDK's keys
  beforeSend,     \* facade: `beforeSend`
  hookCalls,      \* history: the beforeSend functions invoked, in order
  events,         \* events handed to eventBatcher.add(), in order
  logs,           \* entries handed to logBatcher.add(), in order
  errors,         \* errors handed to the error callback, in order
  thrown,         \* what the last call threw at its caller
  creations,      \* times the transport, batchers and handlers were created
  callCount,      \* public calls made, configure() aside
  configureCalls, \* configure() calls made (Node: constructor calls)
  maxSize,        \* PreInitQueue.maxSize
  pushed,         \* history: the calls handed to PreInitQueue.push(), in order
  replayed,       \* the calls PreInitQueue.replay() invoked on its target, in order
  logSize,        \* facade: config.size of the batcher the calls are not routed to
  sessionManager  \* one SessionManager with the clock and the callback it runs against

\* the state of one Batcher and of the transport it sends through
bvars == <<queue, closed, timer, flushing, size, maxQueueSize, maxRetries,
           runtime, flights, joined, nextItem, overflowCalls,
           enqueued, sent, drained, rejects, unaccepted>>

\* the state of the facade that owns the batchers
fvars == <<configured, facadeClosed, disabled, closeCall, closeTimer, work,
           preInit, closedErrors, timeoutErrors>>

\* a PreInitQueue on its own, with the target it replays against
qvars == <<maxSize, pushed, replayed>>

\* what the facade builds events from, and what it has built
kvars == <<optedOut, userId, deviceId, sessionId, nextId, superProperties, storage,
           beforeSend, hookCalls, events, logs, errors, thrown, creations, callCount, configureCalls,
           qvars>>

\* the second batcher's size and the session manager
svars == <<logSize, sessionManager>>

cvars == <<kvars, svars>>

vars == <<bvars, fvars, cvars>>

\* ----------------------------------------------------------------- helpers
Min(a, b) == IF a < b THEN a ELSE b

Max(a, b) == IF a > b THEN a ELSE b

\* Array.prototype.slice(0, n) for n >= 0
Slice(q, n) == SubSeq(q, 1, Min(n, Len(q)))

\* what Array.prototype.splice(0, n) leaves in the array
SpliceRest(q, n) == SubSeq(q, Min(n, Len(q)) + 1, Len(q))

\* what Array.prototype.splice(0, n) removes
SpliceRemoved(q, n) == SubSeq(q, 1, Min(n, Len(q)))

Range(s) == {s[i] : i \in 1..Len(s)}

Increasing(s) == \A i, j \in 1..Len(s) : i < j => s[i] < s[j]

IsPrefix(p, s) == Len(p) <= Len(s) /\ SubSeq(s, 1, Len(p)) = p

RemoveAt(s, i) == SubSeq(s, 1, i - 1) \o SubSeq(s, i + 1, Len(s))

HalveNoFloor(s) == s \div 2

\* Batcher.halveBatchSize
Halve(s) == Max(1, s \div 2)

\* ------------------------------------------------------------ the transport
\* HTTP statuses the collector answers with
Statuses == {202, 207, 401, 404, 413, 500}

\* outcome of one fetch(): a response, or a rejection of the fetch promise
Responses ==
  {[threw |-> "none", status |-> s] : s \in Statuses}
    \cup {[threw |-> "TypeError", status |-> 0], [threw |-> "Error", status |-> 0]}

\* navigator.onLine as read by one attempt (the Node transport never reads it)
OnlineValues == IF runtime = "browser" THEN BOOLEAN ELSE {TRUE}

NoError == [cls |-> "none", statusCode |-> 0]

\* a NetworkError; statusCode 0 stands for one constructed without a status
NetworkError(code) == [cls |-> "NetworkError", statusCode |-> code]

TryBlock207Retried(resp) ==
  IF resp.threw # "none"
    THEN [ctl |-> "throw", err |-> [cls |-> resp.threw, statusCode |-> 0],
          onError |-> 0, tooLarge |-> 0, end |-> "none"]
  ELSE IF resp.status = 202
    THEN [ctl |-> "return", err |-> NoError, onError |-> 0, tooLarge |-> 0, end |-> "ok"]
  ELSE IF resp.status = 413
    THEN [ctl |-> "throw", err |-> NetworkError(413), onError |-> 0, tooLarge |-> 1, end |-> "none"]
  ELSE IF resp.status >= 400 /\ resp.status < 500
    THEN [ctl |-> "throw", err |-> NetworkError(resp.status), onError |-> 0, tooLarge |-> 0, end |-> "none"]
  ELSE [ctl |-> "next", err |-> NetworkError(resp.status), onError |-> 0, tooLarge |-> 0, end |-> "none"]

\* body of the try block of send(): what one fetch outcome leads to
TryBlock(resp) ==
  IF resp.threw # "none"
    THEN [ctl |-> "throw", err |-> [cls |-> resp.threw, statusCode |-> 0],
          onError |-> 0, tooLarge |-> 0, end |-> "none"]
  ELSE IF resp.status = 202
    THEN [ctl |-> "return", err |-> NoError, onError |-> 0, tooLarge |-> 0, end |-> "ok"]
  ELSE IF resp.status = 207
    THEN [ctl |-> "return", err |-> NetworkError(207), onError |-> 1, tooLarge |-> 0,
          end |-> "partial"]
  ELSE IF resp.status = 413
    THEN [ctl |-> "throw", err |-> NetworkError(413), onError |-> 0, tooLarge |-> 1, end |-> "none"]
  ELSE IF resp.status = 401
    THEN [ctl |-> "throw", err |-> NetworkError(401), onError |-> 0, tooLarge |-> 0, end |-> "none"]
  ELSE IF resp.status >= 400 /\ resp.status < 500
    THEN [ctl |-> "throw", err |-> NetworkError(resp.status), onError |-> 0, tooLarge |-> 0, end |-> "none"]
  ELSE [ctl |-> "next", err |-> NetworkError(resp.status), onError |-> 0, tooLarge |-> 0, end |-> "none"]

CatchBlockRetryAll(err) ==
  IF err.cls = "NetworkError" /\ err.statusCode = 413
    THEN [ctl |-> "throw", err |-> err, onError |-> 0, tooLarge |-> 0, end |-> "tooLarge"]
  ELSE [ctl |-> "next", err |-> err, onError |-> 0, tooLarge |-> 0, end |-> "none"]

CatchBlockNo413(err) ==
  IF err.cls = "NetworkError" /\ err.statusCode # 0 /\ err.statusCode < 500
    THEN [ctl |-> "return", err |-> err, onError |-> 1, tooLarge |-> 0, end |-> "client"]
  ELSE IF err.cls = "TypeError"
    THEN [ctl |-> "return", err |-> NetworkError(0), onError |-> 1, tooLarge |-> 0,
          end |-> "local"]
  ELSE [ctl |-> "next", err |-> err, onError |-> 0, tooLarge |-> 0, end |-> "none"]

\* body of the catch block of send()
CatchBlock(err) ==
  IF err.cls = "NetworkError" /\ err.statusCode = 413
    THEN [ctl |-> "throw", err |-> err, onError |-> 0, tooLarge |-> 0, end |-> "tooLarge"]
  ELSE IF err.cls = "NetworkError" /\ err.statusCode # 0 /\ err.statusCode < 500
    THEN [ctl |-> "return", err |-> err, onError |-> 1, tooLarge |-> 0, end |-> "client"]
  ELSE IF err.cls = "TypeError"
    THEN [ctl |-> "return", err |-> NetworkError(0), onError |-> 1, tooLarge |-> 0,
          end |-> "local"]
  ELSE [ctl |-> "next", err |-> err, onError |-> 0, tooLarge |-> 0, end |-> "none"]

\* one pass through try/catch for one fetch outcome
Attempt(resp) ==
  LET t == TryBlock(resp) IN
  IF t.ctl = "throw"
    THEN LET c == CatchBlock(t.err) IN
         [c EXCEPT !.onError = t.onError + c.onError, !.tooLarge = t.tooLarge + c.tooLarge]
    ELSE t

\* a send(batch) call that has not reached its first statement yet
NewFlight(batch) ==
  [batch |-> batch, attempt |-> 0, phase |-> "start", fetches |-> 0, backoffs |-> 0,
   errs |-> 0, tooLarge |-> 0, status |-> 0, lastError |-> NoError, reported |-> NoError,
   end |-> "none"]

ExhaustSilent(f) == [f EXCEPT !.phase = "resolved", !.end = "exhausted"]

\* the for loop is left without a return: report lastError, resolve
Exhaust(f) ==
  [f EXCEPT !.phase = "resolved", !.end = "exhausted",
            !.errs = @ + (IF f.lastError # NoError THEN 1 ELSE 0),
            !.reported = f.lastError]

ContinueOneMore(f) ==
  IF f.attempt + 1 <= maxRetries + 1
    THEN [f EXCEPT !.attempt = @ + 1, !.phase = "backoff", !.backoffs = @ + 1]
    ELSE Exhaust([f EXCEPT !.attempt = @ + 1])

\* attempt++ and the loop test; a later attempt starts with a backoff
Continue(f) ==
  IF f.attempt + 1 <= maxRetries
    THEN [f EXCEPT !.attempt = @ + 1, !.phase = "backoff", !.backoffs = @ + 1]
    ELSE Exhaust([f EXCEPT !.attempt = @ + 1])

\* from after the backoff to the fetch call (browser: the offline check first)
BeginAttempt(f, online) ==
  IF runtime = "browser" /\ ~online
    THEN Continue([f EXCEPT !.lastError = NetworkError(0)])
    ELSE [f EXCEPT !.phase = "fetch", !.fetches = @ + 1]

\* sendEvents/sendLogs and send() up to its first await
StartSend(batch, online) ==
  IF Len(batch) = 0
    THEN [NewFlight(batch) EXCEPT !.phase = "resolved", !.end = "empty"]
  ELSE IF 0 <= maxRetries
    THEN BeginAttempt(NewFlight(batch), online)
    ELSE Exhaust(NewFlight(batch))

\* the send of flight f ended on a 202 or 207 of the collector
Accepted(f) == f.phase = "resolved" /\ f.end \in {"ok", "partial"}

\* a promise continuation is queued: no timer or network callback runs before it
MicrotaskPending ==
  \/ flushing \in {"resolved", "rejected"}
  \/ \E i \in 1..Len(flights) : flights[i].phase \in {"resolved", "rejected"}

\* -------------------------------------------------------------- the Batcher
\* Array.prototype.shift (an empty array stays empty)
Shift(q) == IF Len(q) > 0 THEN Tail(q) ELSE q

AddQueueNoEvict(q, item) == Append(q, item)

AddQueueDropNewest(q, item) == IF Len(q) >= maxQueueSize THEN q ELSE Append(q, item)

\* the queue part of Batcher.add on an open batcher: drop oldest at the cap, push
AddQueue(q, item) ==
  IF Len(q) >= maxQueueSize THEN Append(Shift(q), item) ELSE Append(q, item)

\* the onOverflow calls one Batcher.add makes on queue q
AddOverflow(q) == IF Len(q) >= maxQueueSize THEN 1 ELSE 0

\* the model follows a send that ends unaccepted only while fewer than MaxFail did
Explored(f) ==
  (f.phase \in {"resolved", "rejected"} /\ ~Accepted(f)) => rejects + unaccepted < MaxFail

\* Batcher.doFlush, called with queue q, up to its first await or its return
DoFlushEnter(q) ==
  IF Len(q) > 0
    THEN /\ \E online \in OnlineValues :
              /\ Explored(StartSend(Slice(q, size), online))
              /\ flights' = Append(flights, StartSend(Slice(q, size), online))
         /\ flushing' = "pending"
    ELSE /\ flights' = flights
         /\ flushing' = "resolved"

FlushCallNoGuard(q, awaited) ==
  /\ DoFlushEnter(q)
  /\ joined' = joined

\* Batcher.flush, called with queue q; awaited: the caller waits for the result
FlushCall(q, awaited) ==
  IF flushing # "null"
    THEN /\ UNCHANGED <<flushing, flights>>
         /\ joined' = (joined \/ (awaited /\ flushing = "pending"))
    ELSE /\ DoFlushEnter(q)
         /\ joined' = joined

AddWhenClosed ==
  /\ nextItem <= MaxItems
  /\ nextItem' = nextItem + 1
  /\ queue' = AddQueue(queue, nextItem)
  /\ overflowCalls' = overflowCalls + AddOverflow(queue)
  /\ enqueued' = Append(enqueued, nextItem)
  /\ IF Len(queue') >= size
       THEN FlushCall(queue', FALSE)
       ELSE UNCHANGED <<flushing, flights, joined>>
  /\ UNCHANGED <<closed, timer, size, maxQueueSize, maxRetries, runtime,
                 sent, drained, rejects, unaccepted>>

\* Batcher.add(item), the threshold flush it fires included
Add ==
  /\ nextItem <= MaxItems
  /\ nextItem' = nextItem + 1
  /\ IF closed
       THEN UNCHANGED <<queue, overflowCalls, enqueued, flushing, flights, joined>>
       ELSE /\ queue' = AddQueue(queue, nextItem)
            /\ overflowCalls' = overflowCalls + AddOverflow(queue)
            /\ enqueued' = Append(enqueued, nextItem)
            /\ IF Len(queue') >= size
                 THEN FlushCall(queue', FALSE)
                 ELSE UNCHANGED <<flushing, flights, joined>>
  /\ UNCHANGED <<closed, timer, size, maxQueueSize, maxRetries, runtime,
                 sent, drained, rejects, unaccepted>>

\* the setInterval callback of the constructor
Tick ==
  /\ timer
  /\ ~MicrotaskPending
  /\ Len(queue) > 0
  /\ FlushCall(queue, FALSE)
  /\ UNCHANGED <<queue, closed, timer, size, maxQueueSize, maxRetries, runtime,
                 nextItem, overflowCalls, enqueued, sent, drained, rejects, unaccepted>>

\* an explicit Batcher.flush() by a caller that awaits it
Flush ==
  /\ FlushCall(queue, TRUE)
  /\ UNCHANGED <<queue, closed, timer, size, maxQueueSize, maxRetries, runtime,
                 nextItem, overflowCalls, enqueued, sent, drained, rejects, unaccepted>>

\* Batcher.close()
Close ==
  /\ closed' = TRUE
  /\ timer' = FALSE
  /\ FlushCall(queue, TRUE)
  /\ UNCHANGED <<queue, size, maxQueueSize, maxRetries, runtime,
                 nextItem, overflowCalls, enqueued, sent, drained, rejects, unaccepted>>

\* Batcher.drain(); only the browser facade calls it (page unload, reset)
Drain ==
  /\ runtime = "browser"
  /\ Len(queue) > 0
  /\ drained' = drained \o queue
  /\ queue' = <<>>
  /\ UNCHANGED <<closed, timer, flushing, size, maxQueueSize, maxRetries, runtime,
                 flights, joined, nextItem, overflowCalls, enqueued, sent,
                 rejects, unaccepted>>

\* Batcher.halveBatchSize() called from outside this batcher's own send
HalveBatchSize ==
  /\ size' = Halve(size)
  /\ UNCHANGED <<queue, closed, timer, flushing, maxQueueSize, maxRetries, runtime,
                 flights, joined, nextItem, overflowCalls, enqueued, sent,
                 drained, rejects, unaccepted>>

\* flush() after `await this.flushing`: the finally block
FlushFinally ==
  /\ flushing \in {"resolved", "rejected"}
  /\ flushing' = "null"
  /\ UNCHANGED <<queue, closed, timer, size, maxQueueSize, maxRetries, runtime,
                 flights, joined, nextItem, overflowCalls, enqueued, sent,
                 drained, rejects, unaccepted>>

\* the flight as one fetch outcome leaves it
AfterFetch(f, resp) ==
  LET r == Attempt(resp)
      f1 == [f EXCEPT !.status = resp.status, !.errs = @ + r.onError,
                      !.tooLarge = @ + r.tooLarge,
                      !.reported = IF r.onError > 0 THEN r.err ELSE @]
  IN  IF r.ctl = "return" THEN [f1 EXCEPT !.phase = "resolved", !.end = r.end]
      ELSE IF r.ctl = "throw" THEN [f1 EXCEPT !.phase = "rejected", !.end = r.end]
      ELSE Continue([f1 EXCEPT !.lastError = r.err])

\* the fetch of flight i settles with resp; onPayloadTooLarge halves the batch size
FetchResponse(i, resp) ==
  /\ ~MicrotaskPending
  /\ flights[i].phase = "fetch"
  /\ Explored(AfterFetch(flights[i], resp))
  /\ flights' = [flights EXCEPT ![i] = AfterFetch(flights[i], resp)]
  /\ size' = IF Attempt(resp).tooLarge > 0 THEN Halve(size) ELSE size
  /\ UNCHANGED <<queue, closed, timer, flushing, maxQueueSize, maxRetries, runtime,
                 joined, nextItem, overflowCalls, enqueued, sent, drained,
                 rejects, unaccepted>>

\* the backoff timer of flight i fires
BackoffDone(i, online) ==
  /\ ~MicrotaskPending
  /\ flights[i].phase = "backoff"
  /\ Explored(BeginAttempt(flights[i], online))
  /\ flights' = [flights EXCEPT ![i] = BeginAttempt(flights[i], online)]
  /\ UNCHANGED <<queue, closed, timer, flushing, size, maxQueueSize, maxRetries,
                 runtime, joined, nextItem, overflowCalls, enqueued, sent,
                 drained, rejects, unaccepted>>

ResumeQueueAlways(q, f) == SpliceRest(q, Len(f.batch))

\* doFlush after `await send(batch)`: the queue as the try/catch leaves it
ResumeQueue(q, f) ==
  IF f.phase = "resolved" THEN SpliceRest(q, Len(f.batch)) ELSE q

\* doFlush after `await send(batch)`: whether the while loop goes round again
ResumeAgain(q1, f) == f.phase = "resolved" /\ Len(q1) > 0

FlushSettlesRethrow(f) == IF f.phase = "rejected" THEN "rejected" ELSE "resolved"

\* how the promise of doFlush settles when doFlush ends after flight f
FlushSettles(f) == "resolved"

\* doFlush resumes after the send of flight i settled
DoFlushResume(i) ==
  /\ flights[i].phase \in {"resolved", "rejected"}
  /\ LET f == flights[i]
         q1 == ResumeQueue(queue, f)
     IN  /\ queue' = q1
         /\ sent' = IF Accepted(f) THEN sent \o f.batch ELSE sent
         /\ rejects' = rejects + (IF f.phase = "rejected" THEN 1 ELSE 0)
         /\ unaccepted' = unaccepted + (IF f.phase = "resolved" /\ ~Accepted(f) THEN 1 ELSE 0)
         /\ IF ResumeAgain(q1, f)
              THEN /\ \E online \in OnlineValues :
                        /\ Explored(StartSend(Slice(q1, size), online))
                        /\ flights' = [flights EXCEPT ![i] = StartSend(Slice(q1, size), online)]
                   /\ UNCHANGED <<flushing, joined>>
              ELSE /\ flights' = RemoveAt(flights, i)
                   /\ flushing' = FlushSettles(f)
                   /\ joined' = FALSE
  /\ UNCHANGED <<closed, timer, size, maxQueueSize, maxRetries, runtime,
                 nextItem, overflowCalls, enqueued, drained>>

\* ------------------------------------------------- values the facade handles
\* a JavaScript string is followed by its length, a number by its value
Str(n) == [t |-> "string", n |-> n]
Num(n) == [t |-> "number", n |-> n]
Undefined == [t |-> "undefined", n |-> 0]

\* {}
EmptyBag == [k \in {} |-> Undefined]

\* no error was thrown
NoThrow == [name |-> "none", field |-> ""]

\* no beforeSend option
NoHook == [kind |-> "undefined", items |-> <<>>]

\* localStorage of a first visit
FreshStorage ==
  [userId |-> Undefined, deviceId |-> 0, superProps |-> EmptyBag, optOut |-> FALSE]

\* PreInitQueue.maxSize as the facade constructs the queue
PreInitMax == 1000

\* no SessionManager has been constructed
NoSession == [made |-> FALSE]

\* the client variables where no call that builds anything is explored
ClientIdle ==
  /\ optedOut = FALSE
  /\ userId = Undefined
  /\ deviceId = 0
  /\ sessionId = 0
  /\ nextId = 1
  /\ superProperties = EmptyBag
  /\ storage = FreshStorage
  /\ beforeSend = NoHook
  /\ hookCalls = <<>>
  /\ events = <<>>
  /\ logs = <<>>
  /\ errors = <<>>
  /\ thrown = NoThrow
  /\ creations = 0
  /\ callCount = 0
  /\ configureCalls = 0
  /\ maxSize = PreInitMax
  /\ pushed = <<>>
  /\ replayed = <<>>

\* ------------------------------------------------------------ specification
Init ==
  /\ queue = <<>>
  /\ closed = FALSE
  /\ timer = TRUE
  /\ flushing = "null"
  /\ size \in 1..MaxSize
  /\ maxQueueSize \in 1..MaxQueue
  /\ maxRetries \in 0..MaxRetry
  /\ runtime \in {"node", "browser"}
  /\ flights = <<>>
  /\ joined = FALSE
  /\ nextItem = 1
  /\ overflowCalls = 0
  /\ enqueued = <<>>
  /\ sent = <<>>
  /\ drained = <<>>
  /\ rejects = 0
  /\ unaccepted = 0
  /\ configured = TRUE
  /\ facadeClosed = FALSE
  /\ disabled = FALSE
  /\ closeCall = "none"
  /\ closeTimer = FALSE
  /\ work = "none"
  /\ preInit = <<>>
  /\ closedErrors = 0
  /\ timeoutErrors = 0
  /\ logSize = 0
  /\ sessionManager = NoSession
  /\ ClientIdle

\* the Batcher driven directly by its own methods; no facade call is made
Next ==
  \/ Add /\ UNCHANGED fvars /\ UNCHANGED cvars
  \/ Tick /\ UNCHANGED fvars /\ UNCHANGED cvars
  \/ Flush /\ UNCHANGED fvars /\ UNCHANGED cvars
  \/ Close /\ UNCHANGED fvars /\ UNCHANGED cvars
  \/ Drain /\ UNCHANGED fvars /\ UNCHANGED cvars
  \/ HalveBatchSize /\ UNCHANGED fvars /\ UNCHANGED cvars
  \/ FlushFinally /\ UNCHANGED fvars /\ UNCHANGED cvars
  \/ \E i \in 1..Len(flights), resp \in Responses : FetchResponse(i, resp) /\ UNCHANGED fvars /\ UNCHANGED cvars
  \/ \E i \in 1..Len(flights), online \in OnlineValues : BackoffDone(i, online) /\ UNCHANGED fvars /\ UNCHANGED cvars
  \/ \E i \in 1..Len(flights) : DoFlushResume(i) /\ UNCHANGED fvars /\ UNCHANGED cvars

Spec == Init /\ [][Next]_vars

\* a batcher constructed with a size in the upper half of the range and then only
\* halved: every smaller size is reached by halving alone
HalveInit ==
  /\ queue = <<>>
  /\ closed = FALSE
  /\ timer = TRUE
  /\ flushing = "null"
  /\ size \in (MaxStartSize \div 2 + 1)..MaxStartSize
  /\ maxQueueSize = 1
  /\ maxRetries = 0
  /\ runtime = "node"
  /\ flights = <<>>
  /\ joined = FALSE
  /\ nextItem = 1
  /\ overflowCalls = 0
  /\ enqueued = <<>>
  /\ sent = <<>>
  /\ drained = <<>>
  /\ rejects = 0
  /\ unaccepted = 0
  /\ configured = TRUE
  /\ facadeClosed = FALSE
  /\ disabled = FALSE
  /\ closeCall = "none"
  /\ closeTimer = FALSE
  /\ work = "none"
  /\ preInit = <<>>
  /\ closedErrors = 0
  /\ timeoutErrors = 0
  /\ logSize = 0
  /\ sessionManager = NoSession
  /\ ClientIdle

HalveNext ==
  \/ HalveBatchSize /\ UNCHANGED fvars /\ UNCHANGED cvars

HalveSpec == HalveInit /\ [][HalveNext]_vars

\* a batcher of any size resolveConfig lets through ({...DEFAULTS, ...config}: the
\* batchSize is not validated, so 0 is accepted), with a collector that accepts
\* every request
ProgressInit ==
  /\ queue = <<>>
  /\ closed = FALSE
  /\ timer = TRUE
  /\ flushing = "null"
  /\ size \in 0..MaxSize
  /\ maxQueueSize \in 1..MaxQueue
  /\ maxRetries = 0
  /\ runtime = "node"
  /\ flights = <<>>
  /\ joined = FALSE
  /\ nextItem = 1
  /\ overflowCalls = 0
  /\ enqueued = <<>>
  /\ sent = <<>>
  /\ drained = <<>>
  /\ rejects = 0
  /\ unaccepted = 0
  /\ configured = TRUE
  /\ facadeClosed = FALSE
  /\ disabled = FALSE
  /\ closeCall = "none"
  /\ closeTimer = FALSE
  /\ work = "none"
  /\ preInit = <<>>
  /\ closedErrors = 0
  /\ timeoutErrors = 0
  /\ logSize = 0
  /\ sessionManager = NoSession
  /\ ClientIdle

\* the responses of a collector that accepts every request
AcceptingResponses == {resp \in Responses : resp.threw = "none" /\ resp.status \in {202, 207}}

ProgressNext ==
  \/ Add /\ UNCHANGED fvars /\ UNCHANGED cvars
  \/ Tick /\ UNCHANGED fvars /\ UNCHANGED cvars
  \/ Flush /\ UNCHANGED fvars /\ UNCHANGED cvars
  \/ HalveBatchSize /\ UNCHANGED fvars /\ UNCHANGED cvars
  \/ FlushFinally /\ UNCHANGED fvars /\ UNCHANGED cvars
  \/ \E i \in 1..Len(flights), resp \in AcceptingResponses : FetchResponse(i, resp) /\ UNCHANGED fvars /\ UNCHANGED cvars
  \/ \E i \in 1..Len(flights) : DoFlushResume(i) /\ UNCHANGED fvars /\ UNCHANGED cvars

ProgressSpec == ProgressInit /\ [][ProgressNext]_vars

\* --------------------------------------------------------------- the facade
(***************************************************************************)
(* The Node client (node/src/index.ts) and the browser singleton           *)
(* (browser/src/index.ts) on top of the Batcher above.  Every public call  *)
(* (track, identify, group, alias, revenue, log) has the same shape and    *)
(* ends in add() on the batcher it is routed to; the scenarios explored    *)
(* route all calls to one batcher, so the facade's other batcher stays     *)
(* empty and its flush() and close() settle at once.  configure() is       *)
(* explored on a facade that was not closed before, the user is opted in,  *)
(* and the session manager emits nothing after its session_start.          *)
(***************************************************************************)
\* the id of the session_start context event that configure() enqueues
ContextItem == 0

\* a push that refuses the new call when the queue is full
PushDropNewest(items, max, call) ==
  IF Len(items) >= max THEN items ELSE Append(items, call)

\* PreInitQueue.push: shift() on a full queue, then push()
Push(items, max, call) ==
  IF Len(items) >= max
    THEN Append(IF items = <<>> THEN items ELSE Tail(items), call)
    ELSE Append(items, call)

\* queue.push(call) on the facade's queue
PreInitPush(items, call) == Push(items, PreInitMax, call)

\* the batcher fields an add() touches, as a record
BatcherState ==
  [queue |-> queue, overflowCalls |-> overflowCalls, enqueued |-> enqueued,
   flushing |-> flushing, flights |-> flights]

\* Batcher.add(item) on an open batcher b, the threshold flush it fires included
BatcherAdd(b, item, online) ==
  LET q1 == AddQueue(b.queue, item)
      b1 == [b EXCEPT !.queue = q1,
                      !.overflowCalls = @ + AddOverflow(b.queue),
                      !.enqueued = Append(@, item)]
  IN  IF Len(q1) >= size /\ b.flushing = "null"
        THEN [b1 EXCEPT !.flushing = "pending",
                        !.flights = Append(@, StartSend(Slice(q1, size), online))]
        ELSE b1

\* PreInitQueue.replay: the queued calls go through the open, enabled facade in order
RECURSIVE Replay(_, _, _)
Replay(b, items, online) ==
  IF items = <<>> THEN b
  ELSE Replay(BatcherAdd(b, Head(items), online), Tail(items), online)

\* the items the replayed calls enqueue: a call whose arguments fail validation
\* reports its error at replay and enqueues nothing
ReplayItems(calls) ==
  LET ok == SelectSeq(calls, LAMBDA c : c.valid)
  IN  [i \in 1..Len(ok) |-> ok[i].item]

\* a continuation of the facade's close() is queued
CloseMicrotaskPending == closeCall = "racing" /\ work = "resolved"

\* track / identify / group / alias / revenue / log; valid: the arguments pass validation
Track ==
  /\ nextItem <= MaxCalls
  /\ \E valid \in BOOLEAN :
       IF ~configured
         THEN /\ preInit' = PreInitPush(preInit, [item |-> nextItem, valid |-> valid])
              /\ nextItem' = nextItem + 1
              /\ UNCHANGED <<queue, closed, timer, flushing, size, maxQueueSize, maxRetries,
                             runtime, flights, joined, overflowCalls, enqueued, sent,
                             drained, rejects, unaccepted>>
              /\ UNCHANGED <<configured, facadeClosed, disabled, closeCall, closeTimer,
                             work, closedErrors, timeoutErrors>>
       ELSE IF disabled
         THEN /\ nextItem' = nextItem + 1
              /\ UNCHANGED <<queue, closed, timer, flushing, size, maxQueueSize, maxRetries,
                             runtime, flights, joined, overflowCalls, enqueued, sent,
                             drained, rejects, unaccepted>>
              /\ UNCHANGED fvars
       ELSE IF facadeClosed
         THEN /\ closedErrors' = closedErrors + 1
              /\ nextItem' = nextItem + 1
              /\ UNCHANGED <<queue, closed, timer, flushing, size, maxQueueSize, maxRetries,
                             runtime, flights, joined, overflowCalls, enqueued, sent,
                             drained, rejects, unaccepted>>
              /\ UNCHANGED <<configured, facadeClosed, disabled, closeCall, closeTimer,
                             work, preInit, timeoutErrors>>
       ELSE IF ~valid
         THEN /\ nextItem' = nextItem + 1
              /\ UNCHANGED <<queue, closed, timer, flushing, size, maxQueueSize, maxRetries,
                             runtime, flights, joined, overflowCalls, enqueued, sent,
                             drained, rejects, unaccepted>>
              /\ UNCHANGED fvars
       ELSE Add /\ UNCHANGED fvars

\* browser configure(apiKey, options) on the unconfigured facade; disabled: what the
\* options, bot detection and Do Not Track make of _disabled.  The new SessionManager
\* emits session_start, then the pre-init queue is replayed.
Configure ==
  /\ runtime = "browser"
  /\ ~configured
  /\ ~facadeClosed
  /\ \E d \in BOOLEAN, online \in OnlineValues :
       LET calls == IF d THEN <<>> ELSE <<ContextItem>> \o ReplayItems(preInit)
           b == Replay(BatcherState, calls, online)
       IN  /\ disabled' = d
           /\ \A i \in 1..Len(b.flights) : Explored(b.flights[i])
           /\ queue' = b.queue
           /\ overflowCalls' = b.overflowCalls
           /\ enqueued' = b.enqueued
           /\ flushing' = b.flushing
           /\ flights' = b.flights
  /\ configured' = TRUE
  /\ preInit' = <<>>
  /\ UNCHANGED <<closed, timer, size, maxQueueSize, maxRetries, runtime, joined,
                 nextItem, sent, drained, rejects, unaccepted>>
  /\ UNCHANGED <<facadeClosed, closeCall, closeTimer, work, closedErrors, timeoutErrors>>

\* enable()
Enable ==
  /\ disabled
  /\ disabled' = FALSE
  /\ UNCHANGED bvars
  /\ UNCHANGED <<configured, facadeClosed, closeCall, closeTimer, work, preInit,
                 closedErrors, timeoutErrors>>

\* disable()
Disable ==
  /\ ~disabled
  /\ disabled' = TRUE
  /\ UNCHANGED bvars
  /\ UNCHANGED <<configured, facadeClosed, closeCall, closeTimer, work, preInit,
                 closedErrors, timeoutErrors>>

\* the facade's flush(): Promise.all of both batchers' flush()
FacadeFlush ==
  IF ~configured
    THEN UNCHANGED vars
    ELSE Flush /\ UNCHANGED fvars

FacadeCloseAgain ==
  IF ~configured
    THEN UNCHANGED vars
    ELSE /\ Close
         /\ facadeClosed' = TRUE
         /\ closeCall' = "racing"
         /\ closeTimer' = TRUE
         /\ work' = IF flushing' = "pending" THEN "pending" ELSE "resolved"
         /\ UNCHANGED <<configured, disabled, preInit, closedErrors, timeoutErrors>>

FacadeCloseNoTimer ==
  IF ~configured \/ facadeClosed
    THEN UNCHANGED vars
    ELSE /\ Close
         /\ facadeClosed' = TRUE
         /\ closeCall' = "racing"
         /\ work' = IF flushing' = "pending" THEN "pending" ELSE "resolved"
         /\ UNCHANGED <<configured, disabled, closeTimer, preInit, closedErrors,
                        timeoutErrors>>

\* the facade's close() up to `await Promise.race([work, timeout])`
FacadeClose ==
  IF ~configured \/ facadeClosed
    THEN UNCHANGED vars
    ELSE /\ Close
         /\ facadeClosed' = TRUE
         /\ closeCall' = "racing"
         /\ closeTimer' = TRUE
         /\ work' = IF flushing' = "pending" THEN "pending" ELSE "resolved"
         /\ UNCHANGED <<configured, disabled, preInit, closedErrors, timeoutErrors>>

\* close() resumes after the race that `work` won; the browser then unconfigures
CloseResumes ==
  /\ CloseMicrotaskPending
  /\ closeCall' = "returned"
  /\ configured' = (runtime # "browser")
  /\ UNCHANGED bvars
  /\ UNCHANGED <<facadeClosed, disabled, closeTimer, work, preInit, closedErrors,
                 timeoutErrors>>

\* the setTimeout of close() fires: the race rejects if still open, close() reports it
CloseTimeout ==
  /\ closeTimer
  /\ ~MicrotaskPending
  /\ ~CloseMicrotaskPending
  /\ closeTimer' = FALSE
  /\ IF closeCall = "racing"
       THEN /\ timeoutErrors' = timeoutErrors + 1
            /\ closeCall' = "returned"
            /\ configured' = (runtime # "browser")
       ELSE UNCHANGED <<timeoutErrors, closeCall, configured>>
  /\ UNCHANGED bvars
  /\ UNCHANGED <<facadeClosed, disabled, work, preInit, closedErrors>>

\* browser handleUnload (beforeunload / hidden), registered from configure to close
Unload ==
  /\ runtime = "browser"
  /\ configured
  /\ ~facadeClosed
  /\ Drain
  /\ UNCHANGED fvars

\* doFlush resumes; a batcher close() that waited for this flush is released with it
FacadeDoFlushResume(i) ==
  /\ DoFlushResume(i)
  /\ work' = IF work = "pending" /\ flushing' # "pending" THEN "resolved" ELSE work
  /\ UNCHANGED <<configured, facadeClosed, disabled, closeCall, closeTimer, preInit,
                 closedErrors, timeoutErrors>>

\* the other batcher's size when the response leaves it alone
OtherSizeKept(s, resp) == s

\* the callback the facade hands to the transport, as the batcher no call is routed
\* to sees it: `onPayloadTooLarge: () => { eventBatcher.halveBatchSize();
\* logBatcher.halveBatchSize(); }`
OtherSize(s, resp) == IF Attempt(resp).tooLarge > 0 THEN Halve(s) ELSE s

\* the fetch of flight i settles with resp: a 413 halves both batchers
FacadeFetchResponse(i, resp) ==
  /\ FetchResponse(i, resp)
  /\ logSize' = OtherSize(logSize, resp)
  /\ UNCHANGED sessionManager
  /\ UNCHANGED fvars
  /\ UNCHANGED kvars

\* the facade is explored with batch sizes 1 and 2, a queue no call overflows, and
\* a transport that does not retry, so that no backoff timer is ever set
FacadeInit ==
  /\ queue = <<>>
  /\ closed = FALSE
  /\ timer = TRUE
  /\ flushing = "null"
  /\ size \in {1, 2}
  /\ maxQueueSize = MaxCalls + 1
  /\ maxRetries = 0
  /\ runtime \in {"node", "browser"}
  /\ flights = <<>>
  /\ joined = FALSE
  /\ nextItem = 1
  /\ overflowCalls = 0
  /\ enqueued = <<>>
  /\ sent = <<>>
  /\ drained = <<>>
  /\ rejects = 0
  /\ unaccepted = 0
  /\ configured = (runtime = "node")
  /\ facadeClosed = FALSE
  /\ disabled \in (IF runtime = "node" THEN BOOLEAN ELSE {FALSE})
  /\ closeCall = "none"
  /\ closeTimer = FALSE
  /\ work = "none"
  /\ preInit = <<>>
  /\ closedErrors = 0
  /\ timeoutErrors = 0
  /\ logSize = size
  /\ sessionManager = NoSession
  /\ ClientIdle

FacadeNext ==
  \/ Track /\ UNCHANGED cvars
  \/ Configure /\ UNCHANGED cvars
  \/ Enable /\ UNCHANGED cvars
  \/ Disable /\ UNCHANGED cvars
  \/ FacadeFlush /\ UNCHANGED cvars
  \/ FacadeClose /\ UNCHANGED cvars
  \/ CloseResumes /\ UNCHANGED cvars
  \/ CloseTimeout /\ UNCHANGED cvars
  \/ Unload /\ UNCHANGED cvars
  \/ Tick /\ UNCHANGED fvars /\ UNCHANGED cvars
  \/ FlushFinally /\ UNCHANGED fvars /\ UNCHANGED cvars
  \/ \E i \in 1..Len(flights), resp \in Responses : FacadeFetchResponse(i, resp)
  \/ \E i \in 1..Len(flights) : FacadeDoFlushResume(i) /\ UNCHANGED cvars

FacadeSpec == FacadeInit /\ [][FacadeNext]_vars

\* timers fire and queued promise continuations run
FairFacadeSpec ==
  /\ FacadeSpec
  /\ WF_vars(CloseTimeout /\ UNCHANGED cvars)
  /\ WF_vars(CloseResumes /\ UNCHANGED cvars)
  /\ WF_vars(FlushFinally /\ UNCHANGED fvars /\ UNCHANGED cvars)
  /\ WF_vars(\E i \in 1..Len(flights) : FacadeDoFlushResume(i) /\ UNCHANGED cvars)

\* --------------------------------------------------- the facade: what it builds
(***************************************************************************)
(* The same two facades, now followed through what a public call builds:   *)
(* argument validation, the event or log entry with identity and           *)
(* super-properties merged in, the beforeSend pipeline, and the hand-over  *)
(* to the batcher.  The batchers are reduced to the items handed to add(); *)
(* no flush, send or close is explored here.  A JavaScript string is       *)
(* followed by its length only, a number by its value.  An error callback  *)
(* is configured and returns normally, and the property bags a caller      *)
(* passes have no key that is also a field of the event.                   *)
(***************************************************************************)

\* `!v` is false
Truthy(v) ==
  CASE v.t = "string" -> v.n > 0
    [] v.t = "number" -> v.n # 0
    [] OTHER -> FALSE

\* MAX_EVENT_NAME, MAX_LOG_MESSAGE
MaxEventName == 256
MaxLogMessage == 65536

ValidationError(field) == [name |-> "ValidationError", field |-> field]
ConfigurationError == [name |-> "ConfigurationError", field |-> ""]
ClosedError == [name |-> "ClosedError", field |-> ""]

validateEventName(name) ==
  IF name.t # "string" \/ name.n = 0 THEN ValidationError("eventName")
  ELSE IF name.n > MaxEventName THEN ValidationError("eventName")
  ELSE NoThrow

validateLogMessage(message) ==
  IF message.t # "string" \/ message.n = 0 THEN ValidationError("message")
  ELSE IF message.n > MaxLogMessage THEN ValidationError("message")
  ELSE NoThrow

validateUserId(id) ==
  IF id.t # "string" \/ id.n = 0 THEN ValidationError("userId")
  ELSE NoThrow

\* `if (!v) throw new ValidationError(field, "is required")`
Required(v, field) == IF ~Truthy(v) THEN ValidationError(field) ELSE NoThrow

\* `if (amount <= 0) throw new ValidationError("amount", "must be positive")`
PositiveAmount(amount) == IF amount <= 0 THEN ValidationError("amount") ELSE NoThrow

\* a try block of checks: the first one that throws ends the block
RECURSIVE FirstThrow(_)
FirstThrow(checks) ==
  IF checks = <<>> THEN NoThrow
  ELSE IF Head(checks) # NoThrow THEN Head(checks)
  ELSE FirstThrow(Tail(checks))

\* an API key is followed by its length and by whether all its characters are hex
ApiKey(n, hex) == [t |-> "string", n |-> n, hex |-> hex]

validateApiKey(key) ==
  IF key.n = 0 THEN ConfigurationError
  ELSE IF ~(key.hex /\ key.n = 32) THEN ConfigurationError
  ELSE NoThrow

\* ---- property bags: { ...a, ...b }
Spread(a, b) == b @@ a
Without(bag, key) == [k \in DOMAIN bag \ {key} |-> bag[k]]

\* ---- the beforeSend pipeline
Null == [type |-> "null"]
HookFn(f) == [kind |-> "function", items |-> <<f>>]
HookArray(fs) == [kind |-> "array", items |-> fs]

\* three BeforeSendFn a caller may supply: two transforms that do not commute, and
\* a filter that drops everything
BeforeSendFns == {"setPlan", "copyPlan", "drop"}

CallFn(f, item) ==
  CASE f = "setPlan" -> Spread(item, [plan |-> Num(7)])
    [] f = "copyPlan" -> IF "plan" \in DOMAIN item THEN Spread(item, [ref |-> item.plan])
                         ELSE item
    [] OTHER -> Null

\* the for loop of runBeforeSend; `invoked` lists the functions it has called
RECURSIVE PipelineLoopNoStop(_, _, _)
PipelineLoopNoStop(current, pipeline, invoked) ==
  IF pipeline = <<>> THEN [item |-> current, invoked |-> invoked]
  ELSE PipelineLoopNoStop(IF current = Null THEN Null ELSE CallFn(Head(pipeline), current),
                          Tail(pipeline), Append(invoked, Head(pipeline)))

RECURSIVE PipelineLoop(_, _, _)
PipelineLoop(current, pipeline, invoked) ==
  IF pipeline = <<>> THEN [item |-> current, invoked |-> invoked]
  ELSE IF current = Null THEN [item |-> Null, invoked |-> invoked]
  ELSE PipelineLoop(CallFn(Head(pipeline), current), Tail(pipeline),
                    Append(invoked, Head(pipeline)))

runBeforeSend(item, fns) ==
  PipelineLoop(item, IF fns.kind = "array" THEN fns.items ELSE <<fns.items[1]>>, <<>>)


\* ---- the facade's fields, as a record the calls are applied to
Client ==
  [configured |-> configured, closed |-> facadeClosed, disabled |-> disabled,
   optedOut |-> optedOut, userId |-> userId, deviceId |-> deviceId,
   sessionId |-> sessionId, nextId |-> nextId, superProperties |-> superProperties,
   storage |-> storage, beforeSend |-> beforeSend, hookCalls |-> hookCalls,
   events |-> events, logs |-> logs, errors |-> errors, preInit |-> preInit,
   creations |-> creations]

\* reportError(err) with an error callback configured
Report(st, err) == [st EXCEPT !.errors = Append(@, err)]

\* eventBatcher.add(event)
EnqueueUnhooked(st, event) == [st EXCEPT !.events = Append(@, event)]

\* `if (beforeSend) { event = runBeforeSend(event, beforeSend); if (event === null) return; }`
\* and then eventBatcher.add(event)
Enqueue(st, event) ==
  IF st.beforeSend.kind = "undefined" THEN EnqueueUnhooked(st, event)
  ELSE LET out == runBeforeSend(event, st.beforeSend)
           ran == [st EXCEPT !.hookCalls = @ \o out.invoked]
       IN IF out.item = Null THEN ran ELSE EnqueueUnhooked(ran, out.item)

\* the steps every event call goes through; `passed` is the facade once validation
\* has passed, `event` the item built then
EventCall(st, rt, c, checks, passed, event) ==
  IF rt = "browser" /\ ~st.configured THEN [st EXCEPT !.preInit = PreInitPush(@, c)]
  ELSE IF st.disabled \/ (rt = "browser" /\ st.optedOut) THEN st
  ELSE IF st.closed THEN Report(st, ClosedError)
  ELSE IF FirstThrow(checks) # NoThrow THEN Report(st, FirstThrow(checks))
  ELSE Enqueue(passed, event)

\* the Node calls take the user id as their first argument, the browser calls use
\* the id identify() stored
UserCheck(rt, c) == IF rt = "node" THEN <<validateUserId(c.userId)>> ELSE <<>>
Subject(st, rt, c) == IF rt = "node" THEN c.userId ELSE st.userId

BaseEvent(st, type, user) ==
  [type |-> type, device_id |-> st.deviceId, session_id |-> st.sessionId,
   user_id |-> user]

TrackCall(st, rt, c) ==
  EventCall(st, rt, c,
            UserCheck(rt, c) \o <<validateEventName(c.eventName)>>,
            st,
            Spread(Spread(Spread(BaseEvent(st, "track", Subject(st, rt, c)),
                                 [event |-> c.eventName]),
                          st.superProperties),
                   c.properties))

\* the browser stores the new user id before the event is built
Identified(st, rt, c) ==
  IF rt = "browser"
    THEN [st EXCEPT !.userId = c.userId, !.storage.userId = c.userId]
    ELSE st

IdentifyCall(st, rt, c) ==
  EventCall(st, rt, c,
            <<validateUserId(c.userId)>>,
            Identified(st, rt, c),
            Spread(BaseEvent(st, "identify", c.userId), c.properties))

GroupCall(st, rt, c) ==
  EventCall(st, rt, c,
            UserCheck(rt, c) \o <<Required(c.groupId, "groupId")>>,
            st,
            Spread(Spread(Spread(BaseEvent(st, "group", Subject(st, rt, c)),
                                 [group_id |-> c.groupId]),
                          st.superProperties),
                   c.properties))

RevenueCall(st, rt, c) ==
  EventCall(st, rt, c,
            UserCheck(rt, c) \o <<PositiveAmount(c.amount),
                                  Required(c.currency, "currency"),
                                  Required(c.orderId, "orderId")>>,
            st,
            Spread(Spread(Spread(Spread(BaseEvent(st, "track", Subject(st, rt, c)),
                                        [event |-> Str(15)]),
                                 st.superProperties),
                          c.properties),
                   [order_id |-> c.orderId, amount |-> Num(c.amount),
                    currency |-> c.currency]))

AliasCall(st, rt, c) ==
  EventCall(st, rt, c,
            <<Required(c.previousId, "previousId"), validateUserId(c.userId)>>,
            st,
            Spread(BaseEvent(st, "alias", c.userId), [previous_id |-> c.previousId]))

\* log(): the entry goes to the log batcher; no beforeSendLog is configured
LogCall(st, rt, c) ==
  IF rt = "browser" /\ ~st.configured THEN [st EXCEPT !.preInit = PreInitPush(@, c)]
  ELSE IF st.disabled \/ (rt = "browser" /\ st.optedOut) THEN st
  ELSE IF st.closed THEN Report(st, ClosedError)
  ELSE IF validateLogMessage(c.message) # NoThrow
    THEN Report(st, validateLogMessage(c.message))
  ELSE [st EXCEPT !.logs = Append(@, [message |-> c.message,
                                      session_id |-> st.sessionId])]

\* register(properties): Object.assign, persisted by the browser
RegisterCall(st, rt, c) ==
  IF rt = "browser" /\ ~st.configured THEN [st EXCEPT !.preInit = PreInitPush(@, c)]
  ELSE LET props == Spread(st.superProperties, c.properties)
       IN [st EXCEPT !.superProperties = props,
                     !.storage.superProps = IF rt = "browser" THEN props ELSE @]

\* unregister(key)
UnregisterCall(st, rt, c) ==
  IF rt = "browser" /\ ~st.configured THEN [st EXCEPT !.preInit = PreInitPush(@, c)]
  ELSE LET props == Without(st.superProperties, c.key)
       IN [st EXCEPT !.superProperties = props,
                     !.storage.superProps = IF rt = "browser" THEN props ELSE @]

\* optOut() / optIn(), browser only
OptOutCall(st, c) ==
  IF ~st.configured THEN [st EXCEPT !.preInit = PreInitPush(@, c)]
  ELSE [st EXCEPT !.optedOut = TRUE, !.storage.optOut = TRUE]

OptInCall(st, c) ==
  IF ~st.configured THEN [st EXCEPT !.preInit = PreInitPush(@, c)]
  ELSE [st EXCEPT !.optedOut = FALSE, !.storage.optOut = FALSE]

\* the browser's reset(); generateId() yields an id never handed out before
ResetCall(st) ==
  IF ~st.configured THEN st
  ELSE [st EXCEPT !.userId = Undefined,
                  !.deviceId = st.nextId,
                  !.superProperties = EmptyBag,
                  !.storage = [@ EXCEPT !.userId = Undefined, !.deviceId = st.nextId,
                                        !.superProps = EmptyBag],
                  !.sessionId = st.nextId + 1,
                  !.nextId = st.nextId + 2]

\* the Node client's resetSession()
ResetSessionCall(st) ==
  [st EXCEPT !.sessionId = st.nextId, !.nextId = st.nextId + 1]

\* target[call.method](...call.args)
Dispatch(st, rt, c) ==
  CASE c.method = "track" -> TrackCall(st, rt, c)
    [] c.method = "identify" -> IdentifyCall(st, rt, c)
    [] c.method = "group" -> GroupCall(st, rt, c)
    [] c.method = "revenue" -> RevenueCall(st, rt, c)
    [] c.method = "alias" -> AliasCall(st, rt, c)
    [] c.method = "log" -> LogCall(st, rt, c)
    [] c.method = "register" -> RegisterCall(st, rt, c)
    [] c.method = "unregister" -> UnregisterCall(st, rt, c)
    [] c.method = "optOut" -> OptOutCall(st, c)
    [] c.method = "optIn" -> OptInCall(st, c)
    [] c.method = "reset" -> ResetCall(st)
    [] OTHER -> ResetSessionCall(st)

\* PreInitQueue.replay against the configured facade, whose calls do not throw
RECURSIVE ClientReplay(_, _)
ClientReplay(st, calls) ==
  IF calls = <<>> THEN st
  ELSE ClientReplay(Dispatch(st, "browser", Head(calls)), Tail(calls))

\* onNewSession("session_start") as the SessionManager constructor calls it
SessionStart(st) ==
  IF st.disabled \/ st.optedOut \/ st.closed THEN st
  ELSE EnqueueUnhooked(st, Spread(BaseEvent(st, "context", st.userId),
                                  [reason |-> "session_start"]))

\* configure(apiKey, options) past the two guards; `utm` is what the page URL carries
Configured(st, options, utm) ==
  LET fresh == st.storage.deviceId = 0
      device == IF fresh THEN st.nextId ELSE st.storage.deviceId
      session == IF fresh THEN st.nextId + 1 ELSE st.nextId
      props == Spread(st.storage.superProps, utm)
      made == [st EXCEPT !.beforeSend = options.beforeSend,
                         !.disabled = options.disabled,
                         !.deviceId = device,
                         !.userId = st.storage.userId,
                         !.optedOut = st.storage.optOut,
                         !.superProperties = props,
                         !.storage = [@ EXCEPT !.deviceId = device, !.superProps = props],
                         !.events = <<>>,
                         !.logs = <<>>,
                         !.sessionId = session,
                         !.nextId = session + 1,
                         !.creations = @ + 1]
      started == SessionStart(made)
  IN ClientReplay([started EXCEPT !.configured = TRUE, !.closed = FALSE,
                                  !.preInit = <<>>],
                  st.preInit)

\* configure(): what it throws and the facade it leaves
ConfigureCallNoGuard(st, key, options, utm) ==
  IF validateApiKey(key) # NoThrow THEN [thrown |-> validateApiKey(key), st |-> st]
  ELSE [thrown |-> NoThrow, st |-> Configured(st, options, utm)]

ConfigureCallKeyLast(st, key, options, utm) ==
  IF st.configured THEN [thrown |-> NoThrow, st |-> Report(st, ConfigurationError)]
  ELSE IF validateApiKey(key) # NoThrow
    THEN [thrown |-> validateApiKey(key),
          st |-> [Configured(st, options, utm) EXCEPT !.configured = FALSE]]
  ELSE [thrown |-> NoThrow, st |-> Configured(st, options, utm)]

ConfigureCall(st, key, options, utm) ==
  IF st.configured THEN [thrown |-> NoThrow, st |-> Report(st, ConfigurationError)]
  ELSE IF validateApiKey(key) # NoThrow THEN [thrown |-> validateApiKey(key), st |-> st]
  ELSE [thrown |-> NoThrow, st |-> Configured(st, options, utm)]

\* a call and its arguments; an argument the method does not take stays undefined
Call(method) ==
  [method |-> method, userId |-> Undefined, eventName |-> Undefined,
   groupId |-> Undefined, previousId |-> Undefined, amount |-> 1,
   currency |-> Undefined, orderId |-> Undefined, message |-> Undefined,
   properties |-> EmptyBag, key |-> ""]

\* ---- the arguments explored
\* values of one argument: every kind the validators tell apart
IdArgs == {Str(0), Str(1), Str(2), Num(5)}
NameArgs == {Str(0), Str(1), Str(MaxEventName), Str(MaxEventName + 1), Num(5)}
MessageArgs == {Str(0), Str(1), Str(MaxLogMessage), Str(MaxLogMessage + 1), Undefined}
RequiredArgs == {Str(0), Str(1), Num(5)}
AmountArgs == {-1, 0, 1}
PropArgs == {EmptyBag, [plan |-> Num(2)]}
RegisterArgs == {[plan |-> Num(1)], [ref |-> Num(1)], [plan |-> Num(1), ref |-> Num(1)]}

\* the user id a Node call passes first; the browser calls take none
BadUsers(rt) == IF rt = "node" THEN {Str(0), Num(5)} ELSE {}
GoodUser(rt) == IF rt = "node" THEN Str(1) ELSE Undefined

\* calls with well-formed arguments
\* properties are any string-keyed bag: one has the key of an event field
TrackProps == PropArgs \cup {[user_id |-> Str(4)]}

GoodTrackArgs(rt) ==
  {[Call("track") EXCEPT !.userId = GoodUser(rt), !.eventName = Str(1), !.properties = p] :
     p \in TrackProps}
GoodIdentifyArgs ==
  {[Call("identify") EXCEPT !.userId = u, !.properties = p] :
     u \in {Str(1), Str(2)}, p \in PropArgs}
GoodGroupArgs(rt) ==
  {[Call("group") EXCEPT !.userId = GoodUser(rt), !.groupId = Str(1), !.properties = p] :
     p \in PropArgs}
GoodRevenueArgs(rt) ==
  {[Call("revenue") EXCEPT !.userId = GoodUser(rt), !.currency = Str(3),
                           !.orderId = Str(1), !.properties = p] : p \in PropArgs}
GoodAliasArgs == {[Call("alias") EXCEPT !.previousId = Str(1), !.userId = Str(2)]}
GoodLogArgs == {[Call("log") EXCEPT !.message = Str(1)]}

\* calls that vary one argument of a well-formed call over all its values, or pass
\* nothing well-formed at all
TrackArgs(rt) ==
  GoodTrackArgs(rt)
  \cup {[Call("track") EXCEPT !.userId = GoodUser(rt), !.eventName = n] : n \in NameArgs}
  \cup {[Call("track") EXCEPT !.userId = u, !.eventName = n] :
          u \in BadUsers(rt), n \in {Str(0), Str(1)}}
IdentifyArgs ==
  GoodIdentifyArgs \cup {[Call("identify") EXCEPT !.userId = u] : u \in IdArgs}
GroupArgs(rt) ==
  GoodGroupArgs(rt)
  \cup {[Call("group") EXCEPT !.userId = GoodUser(rt), !.groupId = g] : g \in RequiredArgs}
  \cup {[Call("group") EXCEPT !.userId = u, !.groupId = g] :
          u \in BadUsers(rt), g \in {Str(0), Str(1)}}
RevenueArgs(rt) ==
  GoodRevenueArgs(rt)
  \cup {[Call("revenue") EXCEPT !.userId = GoodUser(rt), !.amount = a,
                                !.currency = Str(3), !.orderId = Str(1)] : a \in AmountArgs}
  \cup {[Call("revenue") EXCEPT !.userId = GoodUser(rt), !.currency = cu,
                                !.orderId = Str(1)] : cu \in RequiredArgs}
  \cup {[Call("revenue") EXCEPT !.userId = GoodUser(rt), !.currency = Str(3),
                                !.orderId = o] : o \in RequiredArgs}
  \cup {[Call("revenue") EXCEPT !.userId = u, !.currency = Str(3), !.orderId = Str(1)] :
          u \in BadUsers(rt)}
  \cup {[Call("revenue") EXCEPT !.userId = GoodUser(rt), !.amount = 0,
                                !.currency = Str(0), !.orderId = Str(0)]}
AliasArgs ==
  GoodAliasArgs
  \cup {[Call("alias") EXCEPT !.previousId = pr, !.userId = Str(2)] : pr \in RequiredArgs}
  \cup {[Call("alias") EXCEPT !.previousId = Str(1), !.userId = u] : u \in IdArgs}
  \cup {[Call("alias") EXCEPT !.previousId = Str(0), !.userId = Str(0)]}
LogArgs == {[Call("log") EXCEPT !.message = m] : m \in MessageArgs}
RegisterCalls == {[Call("register") EXCEPT !.properties = p] : p \in RegisterArgs}
UnregisterCalls == {[Call("unregister") EXCEPT !.key = k] : k \in {"plan", "ref"}}

\* the calls that build an event or a log entry
ItemCalls(rt) ==
  TrackArgs(rt) \cup IdentifyArgs \cup GroupArgs(rt) \cup RevenueArgs(rt)
    \cup AliasArgs \cup LogArgs

Hooks == {NoHook, HookFn("drop"), HookArray(<<"setPlan", "copyPlan">>)}
Options == [beforeSend : Hooks, disabled : BOOLEAN]
\* the empty key, a 32-character key with a non-hex character, hex keys of 31 and
\* 33 characters, and a valid key
ApiKeys == {ApiKey(0, TRUE), ApiKey(32, FALSE), ApiKey(31, TRUE), ApiKey(33, TRUE),
            ApiKey(32, TRUE)}
Utms == {EmptyBag, [utm_source |-> Str(1)]}

\* localStorage of a visitor who was identified and had a super-property
\* registered on an earlier page
ReturningStorage ==
  [userId |-> Str(1), deviceId |-> 1, superProps |-> [ref |-> Num(1)], optOut |-> FALSE]

\* configure() and the constructor read their options and the page URL only once
\* both guards have passed; until then one value stands for all
OptionsRead(st, key) ==
  IF st.configured \/ validateApiKey(key) # NoThrow
    THEN {[beforeSend |-> NoHook, disabled |-> FALSE]}
    ELSE Options
UtmsRead(st, key) ==
  IF st.configured \/ validateApiKey(key) # NoThrow THEN {EmptyBag} ELSE Utms

\* ---- the calls as actions
Becomes(st) ==
  /\ configured' = st.configured
  /\ facadeClosed' = st.closed
  /\ disabled' = st.disabled
  /\ optedOut' = st.optedOut
  /\ userId' = st.userId
  /\ deviceId' = st.deviceId
  /\ sessionId' = st.sessionId
  /\ nextId' = st.nextId
  /\ superProperties' = st.superProperties
  /\ storage' = st.storage
  /\ beforeSend' = st.beforeSend
  /\ hookCalls' = st.hookCalls
  /\ events' = st.events
  /\ logs' = st.logs
  /\ errors' = st.errors
  /\ preInit' = st.preInit
  /\ creations' = st.creations

\* one public call that is not configure(): it returns normally
PublicCall(c) ==
  /\ callCount < MaxClientCalls
  /\ runtime = "node" => configured
  /\ Becomes(Dispatch(Client, runtime, c))
  /\ thrown' = NoThrow
  /\ callCount' = callCount + 1
  /\ UNCHANGED configureCalls
  /\ UNCHANGED bvars
  /\ UNCHANGED <<qvars, svars>>
  /\ UNCHANGED <<closeCall, closeTimer, work, closedErrors, timeoutErrors>>

ClientTrack == \E c \in GoodTrackArgs(runtime) : PublicCall(c)
ClientIdentify == \E c \in GoodIdentifyArgs : PublicCall(c)
ClientGroup == \E c \in GoodGroupArgs(runtime) : PublicCall(c)
ClientRevenue == \E c \in GoodRevenueArgs(runtime) : PublicCall(c)
ClientAlias == \E c \in GoodAliasArgs : PublicCall(c)
ClientLog == \E c \in GoodLogArgs : PublicCall(c)
ClientRegister == \E c \in RegisterCalls : PublicCall(c)
ClientUnregister == \E c \in UnregisterCalls : PublicCall(c)
ClientOptOut == runtime = "browser" /\ PublicCall(Call("optOut"))
ClientOptIn == runtime = "browser" /\ PublicCall(Call("optIn"))
ClientReset == runtime = "browser" /\ PublicCall(Call("reset"))
ClientResetSession == runtime = "node" /\ PublicCall(Call("resetSession"))

\* the browser's configure(apiKey, options) on a page whose URL carries `utm`
ConfigureWith(key, options, utm) ==
  /\ runtime = "browser"
  /\ configureCalls < MaxConfigures
  /\ LET r == ConfigureCall(Client, key, options, utm)
     IN Becomes(r.st) /\ thrown' = r.thrown
  /\ configureCalls' = configureCalls + 1
  /\ UNCHANGED callCount
  /\ UNCHANGED bvars
  /\ UNCHANGED <<qvars, svars>>
  /\ UNCHANGED <<closeCall, closeTimer, work, closedErrors, timeoutErrors>>

ClientConfigure ==
  \E key \in ApiKeys :
    \E options \in OptionsRead(Client, key), utm \in UtmsRead(Client, key) :
      ConfigureWith(key, options, utm)

\* new Tell(config): validateApiKey first, then every field is set
ConstructWith(key, options) ==
  /\ runtime = "node"
  /\ ~configured
  /\ configureCalls < MaxConfigures
  /\ IF validateApiKey(key) # NoThrow
       THEN /\ thrown' = validateApiKey(key)
            /\ UNCHANGED <<configured, disabled, beforeSend, deviceId, sessionId,
                           nextId, creations>>
       ELSE /\ thrown' = NoThrow
            /\ configured' = TRUE
            /\ disabled' = options.disabled
            /\ beforeSend' = options.beforeSend
            /\ deviceId' = nextId
            /\ sessionId' = nextId + 1
            /\ nextId' = nextId + 2
            /\ creations' = creations + 1
  /\ configureCalls' = configureCalls + 1
  /\ UNCHANGED callCount
  /\ UNCHANGED bvars
  /\ UNCHANGED <<qvars, svars>>
  /\ UNCHANGED <<facadeClosed, closeCall, closeTimer, work, preInit, closedErrors,
                 timeoutErrors>>
  /\ UNCHANGED <<optedOut, userId, superProperties, storage, hookCalls, events, logs,
                 errors>>

Construct ==
  \E key \in ApiKeys : \E options \in OptionsRead(Client, key) :
    ConstructWith(key, options)

\* the facade before configure() or the constructor, on a browser whose localStorage
\* is one of `stored`
ClientStart(stored) ==
  /\ queue = <<>>
  /\ closed = FALSE
  /\ timer = TRUE
  /\ flushing = "null"
  /\ size = 1
  /\ maxQueueSize = 1
  /\ maxRetries = 0
  /\ runtime \in {"node", "browser"}
  /\ flights = <<>>
  /\ joined = FALSE
  /\ nextItem = 1
  /\ overflowCalls = 0
  /\ enqueued = <<>>
  /\ sent = <<>>
  /\ drained = <<>>
  /\ rejects = 0
  /\ unaccepted = 0
  /\ configured = FALSE
  /\ facadeClosed = FALSE
  /\ disabled = FALSE
  /\ closeCall = "none"
  /\ closeTimer = FALSE
  /\ work = "none"
  /\ preInit = <<>>
  /\ closedErrors = 0
  /\ timeoutErrors = 0
  /\ optedOut = FALSE
  /\ userId = Undefined
  /\ deviceId = 0
  /\ sessionId = 0
  /\ nextId = 2
  /\ superProperties = EmptyBag
  /\ storage \in (IF runtime = "browser" THEN stored ELSE {FreshStorage})
  /\ beforeSend = NoHook
  /\ hookCalls = <<>>
  /\ events = <<>>
  /\ logs = <<>>
  /\ errors = <<>>
  /\ thrown = NoThrow
  /\ creations = 0
  /\ callCount = 0
  /\ configureCalls = 0
  /\ maxSize = PreInitMax
  /\ pushed = <<>>
  /\ replayed = <<>>
  /\ logSize = size
  /\ sessionManager = NoSession

ClientInit == ClientStart({FreshStorage, ReturningStorage})

ClientNext ==
  \/ Construct
  \/ ClientConfigure
  \/ ClientTrack
  \/ ClientIdentify
  \/ ClientGroup
  \/ ClientRevenue
  \/ ClientAlias
  \/ ClientLog
  \/ ClientRegister
  \/ ClientUnregister
  \/ ClientOptOut
  \/ ClientOptIn
  \/ ClientReset
  \/ ClientResetSession

\* the facade is followed through calls with well-formed arguments
ClientSpec == ClientInit /\ [][ClientNext]_vars

\* ---- the browser facade through opt-out, close() and a second configure()
\* localStorage of a visitor who opted out on an earlier page
OptedOutStorage ==
  [userId |-> Undefined, deviceId |-> 1, superProps |-> EmptyBag, optOut |-> TRUE]

\* close() up to its await: `if (!configured || closed) return; closed = true;`
CloseCall(st) ==
  IF ~st.configured \/ st.closed THEN st ELSE [st EXCEPT !.closed = TRUE]

\* close() after its await: `configured = false`
CloseReturns(st) == [st EXCEPT !.configured = FALSE]

\* close() is called
ClientClose ==
  /\ runtime = "browser"
  /\ callCount < MaxClientCalls
  /\ Becomes(CloseCall(Client))
  /\ closeCall' = IF configured /\ ~facadeClosed THEN "racing" ELSE closeCall
  /\ thrown' = NoThrow
  /\ callCount' = callCount + 1
  /\ UNCHANGED configureCalls
  /\ UNCHANGED bvars
  /\ UNCHANGED <<qvars, svars>>
  /\ UNCHANGED <<closeTimer, work, closedErrors, timeoutErrors>>

\* the batchers are closed or the close timeout fired: close() resumes and returns
ClientCloseReturns ==
  /\ closeCall = "racing"
  /\ Becomes(CloseReturns(Client))
  /\ closeCall' = "returned"
  /\ UNCHANGED <<thrown, callCount, configureCalls>>
  /\ UNCHANGED bvars
  /\ UNCHANGED <<qvars, svars>>
  /\ UNCHANGED <<closeTimer, work, closedErrors, timeoutErrors>>

LifecycleInit == ClientStart({FreshStorage, OptedOutStorage}) /\ runtime = "browser"

LifecycleNext ==
  \/ ClientConfigure
  \/ ClientTrack
  \/ ClientLog
  \/ ClientOptOut
  \/ ClientOptIn
  \/ ClientClose
  \/ ClientCloseReturns

LifecycleSpec == LifecycleInit /\ [][LifecycleNext]_vars

\* ---- calls with arguments of every kind, made on a constructed or configured facade
ValidateTrack == configured /\ \E c \in TrackArgs(runtime) : PublicCall(c)
ValidateIdentify == configured /\ \E c \in IdentifyArgs : PublicCall(c)
ValidateGroup == configured /\ \E c \in GroupArgs(runtime) : PublicCall(c)
ValidateRevenue == configured /\ \E c \in RevenueArgs(runtime) : PublicCall(c)
ValidateAlias == configured /\ \E c \in AliasArgs : PublicCall(c)
ValidateLog == configured /\ \E c \in LogArgs : PublicCall(c)

ValidationNext ==
  \/ Construct
  \/ ClientConfigure
  \/ ValidateTrack
  \/ ValidateIdentify
  \/ ValidateGroup
  \/ ValidateRevenue
  \/ ValidateAlias
  \/ ValidateLog

ValidationSpec == ClientInit /\ [][ValidationNext]_vars

\* ---- facades created with every beforeSend pipeline of up to MaxPipeline functions
Pipelines == UNION {[1..n -> BeforeSendFns] : n \in 0..MaxPipeline}

PipelineHooks ==
  {NoHook} \cup {HookFn(f) : f \in BeforeSendFns} \cup {HookArray(p) : p \in Pipelines}

PipelineOptions == [beforeSend : PipelineHooks, disabled : {FALSE}]

PipelineConstruct ==
  \E options \in PipelineOptions : ConstructWith(ApiKey(32, TRUE), options)

\* the configure() call that creates the browser facade
PipelineConfigure ==
  /\ ~configured
  /\ \E options \in PipelineOptions : ConfigureWith(ApiKey(32, TRUE), options, EmptyBag)

PipelineInit == ClientInit /\ storage = FreshStorage

PipelineNext ==
  \/ PipelineConstruct
  \/ PipelineConfigure
  \/ ClientTrack
  \/ ClientIdentify
  \/ ClientGroup
  \/ ClientRevenue
  \/ ClientAlias

PipelineSpec == PipelineInit /\ [][PipelineNext]_vars

\* ------------------------------------------------------------ PreInitQueue
(***************************************************************************)
(* The PreInitQueue class on its own (browser/src/queue.ts), constructed   *)
(* with a small maxSize as its tests construct it, and replayed against a  *)
(* target whose methods throw for some calls.  A queued call is            *)
(* { method, args }; `throws` tells whether the target's method throws     *)
(* when invoked with it, and args is the number of the push, so that no    *)
(* two queued calls are equal.                                             *)
(***************************************************************************)
QueuedMethods == {"track", "identify"}

QueuedCall(method, n, throws) == [method |-> method, args |-> <<n>>, throws |-> throws]

\* a replay that gives up at the first call that throws
RECURSIVE ReplayStopsAtThrow(_, _)
ReplayStopsAtThrow(calls, log) ==
  IF calls = <<>> THEN log
  ELSE IF Head(calls).throws THEN Append(log, Head(calls))
  ELSE ReplayStopsAtThrow(Tail(calls), Append(log, Head(calls)))

\* the for loop of PreInitQueue.replay: target[call.method](...call.args) inside
\* try/catch; `log` lists the invocations the target has seen
RECURSIVE ReplayLoop(_, _)
ReplayLoop(calls, log) ==
  IF calls = <<>> THEN log
  ELSE ReplayLoop(Tail(calls), Append(log, Head(calls)))

\* q.push(call)
QueuePush ==
  /\ Len(pushed) < MaxPushes
  /\ \E method \in QueuedMethods, throws \in BOOLEAN :
       LET call == QueuedCall(method, Len(pushed) + 1, throws)
       IN /\ preInit' = Push(preInit, maxSize, call)
          /\ pushed' = Append(pushed, call)
  /\ UNCHANGED <<maxSize, replayed>>

\* q.replay(target): the items are taken and the queue emptied before the first call
QueueReplay ==
  /\ replayed' = ReplayLoop(preInit, replayed)
  /\ preInit' = <<>>
  /\ UNCHANGED <<maxSize, pushed>>

PreInitInit ==
  /\ queue = <<>>
  /\ closed = FALSE
  /\ timer = TRUE
  /\ flushing = "null"
  /\ size = 1
  /\ maxQueueSize = 1
  /\ maxRetries = 0
  /\ runtime = "browser"
  /\ flights = <<>>
  /\ joined = FALSE
  /\ nextItem = 1
  /\ overflowCalls = 0
  /\ enqueued = <<>>
  /\ sent = <<>>
  /\ drained = <<>>
  /\ rejects = 0
  /\ unaccepted = 0
  /\ configured = FALSE
  /\ facadeClosed = FALSE
  /\ disabled = FALSE
  /\ closeCall = "none"
  /\ closeTimer = FALSE
  /\ work = "none"
  /\ preInit = <<>>
  /\ closedErrors = 0
  /\ timeoutErrors = 0
  /\ optedOut = FALSE
  /\ userId = Undefined
  /\ deviceId = 0
  /\ sessionId = 0
  /\ nextId = 1
  /\ superProperties = EmptyBag
  /\ storage = FreshStorage
  /\ beforeSend = NoHook
  /\ hookCalls = <<>>
  /\ events = <<>>
  /\ logs = <<>>
  /\ errors = <<>>
  /\ thrown = NoThrow
  /\ creations = 0
  /\ callCount = 0
  /\ configureCalls = 0
  /\ maxSize \in 1..MaxPreInitSize
  /\ pushed = <<>>
  /\ replayed = <<>>
  /\ logSize = size
  /\ sessionManager = NoSession

\* what a PreInitQueue on its own leaves alone
PreInitFrame ==
  /\ UNCHANGED bvars
  /\ UNCHANGED <<configured, facadeClosed, disabled, closeCall, closeTimer, work,
                 closedErrors, timeoutErrors>>
  /\ UNCHANGED <<optedOut, userId, deviceId, sessionId, nextId, superProperties, storage,
                 beforeSend, hookCalls, events, logs, errors, thrown, creations,
                 callCount, configureCalls>>
  /\ UNCHANGED svars

PreInitNext ==
  \/ QueuePush /\ PreInitFrame
  \/ QueueReplay /\ PreInitFrame

PreInitSpec == PreInitInit /\ [][PreInitNext]_vars

\* ------------------------------------------------------------------ claims
\* the step in which doFlush resumes from the settled send of flight i
Resumed(i) == flights[i].phase \in {"resolved", "rejected"} /\ flights' # flights

\* no send(batch) has been started so far
NoSendYet == flights = <<>> /\ sent = <<>> /\ rejects = 0 /\ unaccepted = 0

\* the items the step takes off the front of the queue
Removed == SubSeq(queue, 1, Len(queue) - Len(queue'))

\* C1: at most one send(batch) is in progress at any time; a flush() issued while a
\* flush is in flight starts no send and is resolved only by the end of that flush.
SingleFlight ==
  /\ [](Len(flights) <= 1)
  /\ [](joined => (flushing = "pending" /\ Len(flights) = 1))
  /\ [][(~joined /\ joined') => (flights' = flights /\ flushing' = flushing)]_vars
  /\ [][(joined /\ ~joined') => (flushing = "pending" /\ flushing' = "resolved" /\ flights' = <<>>)]_vars

SingleFlightWitness ==
  /\ joined
  /\ Len(flights) = 1
  /\ flights[1].phase = "fetch"
  /\ Len(queue) > Len(flights[1].batch)

\* C2 (as claimed): after a successful send, doFlush removes exactly the items of the
\* batch it sent, and never an item that was not part of that batch.
RemovesExactlySentBatch ==
  [][\A i \in 1..Len(flights) :
       (Resumed(i) /\ Accepted(flights[i])) =>
          /\ Range(Removed) \subseteq Range(flights[i].batch)
          /\ drained = <<>> => Removed = flights[i].batch]_vars

\* C3: the accepted batches, concatenated, are in enqueue order; without overflow,
\* drain, or a send that resolved unaccepted, they and the queue are exactly the
\* enqueued items, so a flush after a rejected one delivers everything once, in order.
FifoDelivery ==
  /\ Increasing(sent)
  /\ (overflowCalls = 0 /\ drained = <<>> /\ unaccepted = 0) => sent \o queue = enqueued

FifoDeliveryWitness ==
  /\ rejects = 1
  /\ unaccepted = 0
  /\ overflowCalls = 0
  /\ drained = <<>>
  /\ queue = <<>>
  /\ Len(sent) >= 2
  /\ sent = enqueued

\* C4: the queue never holds more than maxQueueSize items.
QueueBounded == Len(queue) <= maxQueueSize

QueueBoundedWitness ==
  /\ overflowCalls > 0
  /\ maxQueueSize >= 2
  /\ Len(queue) = maxQueueSize
  /\ rejects > 0
  /\ closed

\* C5: add() on a full open batcher evicts exactly the oldest item, calls onOverflow
\* once and appends the new item; k adds with no send in between leave the last
\* maxQueueSize items and max(0, k - maxQueueSize) onOverflow calls.
OverflowDropsOldest ==
  /\ [][(nextItem' = nextItem + 1 /\ ~closed /\ Len(queue) = maxQueueSize) =>
          (queue' = Append(Tail(queue), nextItem) /\ overflowCalls' = overflowCalls + 1)]_vars
  /\ []((NoSendYet /\ drained = <<>>) =>
          LET k == Len(enqueued) IN
          /\ queue = SubSeq(enqueued, k - Min(k, maxQueueSize) + 1, k)
          /\ overflowCalls = Max(0, k - maxQueueSize))

OverflowDropsOldestWitness ==
  /\ NoSendYet
  /\ drained = <<>>
  /\ overflowCalls = 2
  /\ Len(enqueued) = maxQueueSize + 2

\* C6 (as claimed): a send that fails by exhausting its attempts leaves the queue as
\* it is.
ExhaustedSendKeepsItems ==
  [][\A i \in 1..Len(flights) :
       (Resumed(i) /\ flights[i].end = "exhausted") => queue' = queue]_vars

\* C7 (as claimed): after a 401 or another 4xx other than 413 the batch is still in
\* the queue when the flush is over.
ClientErrorKeepsItems ==
  [][\A i \in 1..Len(flights) :
       (Resumed(i) /\ flights[i].status \in 400..499 /\ flights[i].status # 413) =>
          (queue' = queue /\ flights' = <<>>)]_vars

\* C8: a 413 ends the send at once: no attempt follows it, onPayloadTooLarge has run
\* exactly once, the send rejects, and the flush takes nothing off the queue.
PayloadTooLargeNotRetried ==
  /\ [](\A i \in 1..Len(flights) :
          /\ flights[i].status = 413 =>
               /\ flights[i].phase = "rejected"
               /\ flights[i].end = "tooLarge"
               /\ flights[i].tooLarge = 1
               /\ flights[i].attempt = 0 => flights[i].fetches = 1
          /\ flights[i].status # 413 => flights[i].tooLarge = 0)
  /\ [][\A i \in 1..Len(flights) :
          (Resumed(i) /\ flights[i].status = 413) =>
             /\ queue' = queue
             /\ flights' = <<>>
             /\ drained = <<>> => queue' # <<>>]_vars

PayloadTooLargeWitness ==
  /\ maxRetries >= 1
  /\ sent = <<>>
  /\ rejects = 1
  /\ flushing = "resolved"
  /\ IsPrefix(<<1>>, queue)

\* C9: when send(batch) rejects, the flush issues no further send, takes nothing
\* off the queue, and its promise resolves.
RejectedSendStopsFlush ==
  [][\A i \in 1..Len(flights) :
       (Resumed(i) /\ flights[i].phase = "rejected") =>
          /\ queue' = queue
          /\ (drained = <<>> /\ overflowCalls = 0) => IsPrefix(flights[i].batch, queue')
          /\ flights' = <<>>
          /\ flushing' = "resolved"]_vars

RejectedSendWitness ==
  /\ rejects >= 1
  /\ flights = <<>>
  /\ flushing = "null"
  /\ Len(queue) >= 2
  /\ sent = <<>>

\* C10: closed is terminal: it is never reset, add() on a closed batcher changes
\* neither the queue nor the flush state and starts no send, and no timer is left.
ClosedIsTerminal ==
  /\ [][closed => closed']_vars
  /\ [](closed => ~timer)
  /\ [][(closed /\ nextItem' = nextItem + 1) =>
          (queue' = queue /\ flights' = flights /\ flushing' = flushing)]_vars

ClosedIsTerminalWitness ==
  /\ closed
  /\ Len(enqueued) < nextItem - 1
  /\ Len(queue) > 0

\* the step in which a pending Batcher.close() is released: its flush ends, or the
\* flush() it called had nothing to wait for
CloseReleased ==
  \/ closed /\ flushing = "pending" /\ flushing' = "resolved"
  \/ ~closed /\ closed' /\ flushing' # "pending"

\* C11 (as claimed): if every send succeeds, then when close() is released the queue
\* is empty and every item added before it was passed to send exactly once.
CloseFlushesEverything ==
  [][(CloseReleased /\ rejects' = 0 /\ unaccepted' = 0 /\ overflowCalls = 0 /\ drained = <<>>) =>
        (queue' = <<>> /\ sent' = enqueued)]_vars

\* C16: one send makes at most maxRetries + 1 fetches and then ends; no backoff comes
\* before the first attempt and exactly one before each later attempt; an empty list
\* makes no fetch at all.
BoundedAttempts ==
  /\ \A i \in 1..Len(flights) :
       LET f == flights[i] IN
       /\ Len(f.batch) > 0
       /\ f.fetches <= maxRetries + 1
       /\ f.fetches <= f.attempt + 1
       /\ f.phase \in {"backoff", "fetch"} =>
            (f.attempt <= maxRetries /\ f.backoffs = f.attempt)
       /\ f.phase = "fetch" => f.fetches >= 1
       /\ f.phase = "backoff" => f.attempt >= 1
       /\ f.phase \in {"resolved", "rejected"} =>
            f.backoffs = (IF f.end = "exhausted" THEN maxRetries ELSE f.attempt)
  /\ \A online \in BOOLEAN :
       LET e == StartSend(<<>>, online) IN
       e.phase = "resolved" /\ e.fetches = 0 /\ e.backoffs = 0 /\ e.errs = 0

BoundedAttemptsWitness ==
  /\ maxRetries >= 1
  /\ \E i \in 1..Len(flights) :
       /\ flights[i].end = "exhausted"
       /\ flights[i].fetches = maxRetries + 1
       /\ flights[i].backoffs = maxRetries

\* the fetch of flight i settles in this step with a 5xx or a retryable rejection
RetryableOutcome(i) ==
  /\ flights[i].phase = "fetch"
  /\ Len(flights') = Len(flights)
  /\ flights'[i] # flights[i]
  /\ \/ flights'[i].status >= 500
     \/ flights'[i].status = 0 /\ flights'[i].end # "local"

\* C17: a 5xx or a retryable network failure is retried while attempts remain; a send
\* that ends on a 202 has called onError never; a send whose attempts all failed has
\* called onError exactly once, after the last attempt, with the last error.
RetriesThenReports ==
  /\ [](\A i \in 1..Len(flights) :
          LET f == flights[i] IN
          /\ f.phase \in {"backoff", "fetch"} => (f.errs = 0 /\ f.reported = NoError)
          /\ f.end = "ok" => (f.status = 202 /\ f.errs = 0 /\ f.reported = NoError)
          /\ f.end = "exhausted" =>
               /\ f.phase = "resolved"
               /\ f.attempt = maxRetries + 1
               /\ f.errs = 1
               /\ f.reported = f.lastError
               /\ f.reported # NoError)
  /\ [][\A i \in 1..Len(flights) :
          RetryableOutcome(i) =>
            LET g == flights'[i]
                e == IF g.status >= 500 THEN NetworkError(g.status)
                                        ELSE [cls |-> "Error", statusCode |-> 0]
            IN  /\ g.lastError = e
                /\ IF flights[i].attempt < maxRetries
                     THEN g.phase = "backoff" /\ g.attempt = flights[i].attempt + 1
                     ELSE g.end = "exhausted" /\ g.reported = e]_vars

RetriesThenReportsWitness ==
  /\ maxRetries >= 1
  /\ \E i \in 1..Len(flights) :
       /\ flights[i].end = "ok"
       /\ flights[i].attempt >= 1
       /\ flights[i].fetches = 2
       /\ flights[i].lastError = NetworkError(500)

\* C18: a 401, another 4xx other than 413, or a TypeError of fetch ends the send at
\* that attempt whatever maxRetries is, and exactly one error is reported.
ClientErrorNotRetried ==
  \A i \in 1..Len(flights) :
     LET f == flights[i] IN
     /\ f.lastError.cls # "TypeError"
     /\ f.lastError.statusCode \notin 400..499
     /\ (f.status \in 400..499 /\ f.status # 413) =>
          /\ f.phase = "resolved"
          /\ f.end = "client"
          /\ f.errs = 1
          /\ f.reported = NetworkError(f.status)
     /\ f.end = "local" =>
          /\ f.phase = "resolved"
          /\ f.status = 0
          /\ f.errs = 1
          /\ f.reported = NetworkError(0)

ClientErrorNotRetriedWitness ==
  /\ maxRetries >= 1
  /\ \E i \in 1..Len(flights) :
       /\ flights[i].status = 401
       /\ flights[i].attempt = 0
       /\ flights[i].fetches = 1
       /\ flights[i].phase = "resolved"

\* C19: a 207 ends the send as a success: it resolves, no attempt follows, exactly one
\* NetworkError with status 207 is reported, and doFlush takes the batch off the queue.
PartialSuccessDrains ==
  /\ [](\A i \in 1..Len(flights) :
          flights[i].status = 207 =>
            /\ flights[i].phase = "resolved"
            /\ flights[i].end = "partial"
            /\ flights[i].errs = 1
            /\ flights[i].reported = NetworkError(207))
  /\ [][\A i \in 1..Len(flights) :
          (Resumed(i) /\ flights[i].status = 207) =>
             /\ queue' = SpliceRest(queue, Len(flights[i].batch))
             /\ sent' = sent \o flights[i].batch
             /\ (overflowCalls = 0 /\ drained = <<>>) => IsPrefix(flights[i].batch, queue)
             /\ (overflowCalls = 0 /\ drained = <<>> /\ unaccepted = 0) =>
                  sent' \o queue' = enqueued]_vars

PartialSuccessWitness ==
  /\ sent = <<1, 2>>
  /\ queue = <<3>>
  /\ unaccepted = 0
  /\ rejects = 0
  /\ \E i \in 1..Len(flights) : flights[i].status = 207 /\ flights[i].batch = <<3>>

\* C20 (as claimed): with no send in progress, the add() that brings the queue length
\* to size starts exactly one send, of exactly the queued items in order.
ThresholdAddSends ==
  [][(nextItem' = nextItem + 1 /\ ~closed /\ flights = <<>>
        /\ Len(queue) = size - 1 /\ Len(queue') = size) =>
       (Len(flights') = 1 /\ flights'[1].batch = queue' /\ flushing' = "pending")]_vars

\* C12 (as claimed): once close() was called, every call on an enabled facade reports
\* one ClosedError and enqueues nothing, during close() and after it returned.
ClosedCallsReport ==
  [][(facadeClosed /\ ~disabled /\ nextItem' = nextItem + 1) =>
       (closedErrors' = closedErrors + 1 /\ queue' = queue /\ flights' = flights)]_vars

\* C13: a close() that waits always returns; while it waits its deadline timer is
\* armed; when the timer fires during the wait close() returns in that step and reports
\* exactly one timeout error, also with a send that never settles; no timeout error is
\* reported in any other case.
CloseMeetsDeadline ==
  /\ [](closeCall = "racing" => closeTimer)
  /\ [](timeoutErrors <= 1)
  /\ [][(closeCall = "racing" /\ closeTimer /\ ~closeTimer') =>
          (closeCall' = "returned" /\ timeoutErrors' = timeoutErrors + 1)]_vars
  /\ [][timeoutErrors' # timeoutErrors =>
          (closeCall = "racing" /\ work = "pending" /\ closeTimer /\ ~closeTimer')]_vars
  /\ [][(closeCall = "racing" /\ closeCall' = "returned" /\ closeTimer') =>
          (work = "resolved" /\ timeoutErrors' = timeoutErrors)]_vars
  /\ (closeCall = "racing") ~> (closeCall = "returned")

CloseMeetsDeadlineWitness ==
  /\ closeCall = "returned"
  /\ timeoutErrors = 1
  /\ work = "pending"
  /\ Len(queue) > 0
  /\ \E i \in 1..Len(flights) : flights[i].phase = "fetch"

FlushIdleIsNoop ==
  [][((~configured /\ ~configured') \/ closeCall = "returned") =>
       (flights = <<>> => flights' = <<>>)]_vars


\* C21: halveBatchSize() sets the batch size to max(1, floor(size / 2)): a halved
\* size is the integer half for every size of 2 or more, the size never falls
\* below 1, and a size of 1 stays 1.
HalvingFloorsAtOne ==
  /\ [](size >= 1)
  /\ [][IF size >= 2
          THEN 2 * size' <= size /\ size <= 2 * size' + 1
          ELSE size' = 1]_vars
  /\ [][size = 1 => size' = 1]_vars

\* an odd size was halved down to 3, which only the halving of 6 or 7 produces
HalvingFloorsAtOneWitness ==
  size = 3

\* a value that is not a string, or the empty string
BadString(v) == v.t # "string" \/ v.n = 0

\* the arguments of a call that are not well-formed, by the name of their field
Offending(rt, c) ==
  {f \in {"userId", "eventName", "groupId", "previousId", "orderId", "currency",
          "amount", "message"} :
     \/ f = "userId" /\ BadString(c.userId)
          /\ (c.method \in {"identify", "alias"}
              \/ (rt = "node" /\ c.method \in {"track", "group", "revenue"}))
     \/ f = "eventName" /\ c.method = "track"
          /\ (BadString(c.eventName) \/ c.eventName.n > MaxEventName)
     \/ f = "groupId" /\ c.method = "group" /\ BadString(c.groupId)
     \/ f = "previousId" /\ c.method = "alias" /\ BadString(c.previousId)
     \/ f = "orderId" /\ c.method = "revenue" /\ BadString(c.orderId)
     \/ f = "currency" /\ c.method = "revenue" /\ BadString(c.currency)
     \/ f = "amount" /\ c.method = "revenue" /\ c.amount <= 0
     \/ f = "message" /\ c.method = "log"
          /\ (BadString(c.message) \/ c.message.n > MaxLogMessage)}

\* the facade takes calls: it is neither disabled, opted out nor closed
Accepting == configured /\ ~disabled /\ ~optedOut /\ ~facadeClosed

\* C22: a track, identify, group, alias, revenue or log call with an argument that
\* is not well-formed (an empty or non-string id, name, currency; a name over 256
\* or a message over 65536 characters; an amount <= 0) returns normally, hands
\* exactly one ValidationError naming an offending field to the error callback and
\* enqueues nothing; a call whose arguments are all well-formed, a name of exactly
\* 256 and a message of exactly 65536 characters included, reports nothing.
InvalidCallsReport ==
  [][\A c \in ItemCalls(runtime) :
       (Accepting /\ PublicCall(c)) =>
         /\ thrown' = NoThrow
         /\ IF Offending(runtime, c) # {}
              THEN /\ \E f \in Offending(runtime, c) :
                        errors' = Append(errors, ValidationError(f))
                   /\ events' = events
                   /\ logs' = logs
              ELSE errors' = errors]_vars

\* the step is a configure() call or a constructor call
ConfigureStep == configureCalls' = configureCalls + 1

\* what a configured facade consists of, the errors it has reported aside
Setup ==
  <<configured, facadeClosed, disabled, optedOut, userId, deviceId, sessionId, nextId,
    superProperties, storage, beforeSend, events, logs, preInit, creations>>

\* C23: configure() on a browser facade that is already configured hands exactly one
\* ConfigurationError to the error callback, returns normally and changes nothing:
\* no transport, batcher, session or handler is created and the queues, the
\* identity, the super-properties and the options are kept.
DoubleConfigureRejected ==
  [][(configured /\ ConfigureStep) =>
       \A key \in ApiKeys :
         \A options \in OptionsRead(Client, key), utm \in UtmsRead(Client, key) :
           ConfigureWith(key, options, utm) =>
             /\ errors' = Append(errors, ConfigurationError)
             /\ thrown' = NoThrow
             /\ UNCHANGED Setup]_vars

\* a second configure() was rejected on a facade that had identified a user
DoubleConfigureWitness ==
  /\ runtime = "browser"
  /\ configured
  /\ configureCalls = 2
  /\ errors = <<ConfigurationError>>
  /\ creations = 1
  /\ userId = Str(2)
  /\ Len(events) = 2

\* the options a configure() or constructor call was given are the ones the facade
\* has after it; a call that throws reads none
Installed == [beforeSend |-> beforeSend', disabled |-> disabled']

\* an API key of exactly 32 hexadecimal characters
WellFormedKey(key) == key.n = 32 /\ key.hex

\* C24: the Node constructor and the browser's configure(), given an API key that
\* is not exactly 32 hexadecimal characters, throw a ConfigurationError and leave
\* the facade unconfigured with nothing created and the pre-init queue as it was;
\* given a well-formed key, also after such a failure, they configure the facade.
BadKeyThrows ==
  /\ [][(~configured /\ ConfigureStep) =>
          \A key \in ApiKeys :
            \A utm \in UtmsRead(Client, key) :
              ConfigureWith(key, Installed, utm) =>
                IF WellFormedKey(key)
                  THEN thrown' = NoThrow /\ configured' /\ creations' = creations + 1
                       /\ preInit' = <<>>
                  ELSE thrown' = ConfigurationError /\ errors' = errors
                       /\ UNCHANGED Setup]_vars
  /\ [][ConfigureStep =>
          \A key \in ApiKeys :
            ConstructWith(key, Installed) =>
              IF WellFormedKey(key)
                THEN thrown' = NoThrow /\ configured' /\ creations' = creations + 1
                ELSE thrown' = ConfigurationError /\ errors' = errors
                     /\ UNCHANGED Setup]_vars

\* configure() has just thrown on a bad key while two calls were buffered
BadKeyThrowsWitness ==
  /\ runtime = "browser"
  /\ ~configured
  /\ thrown = ConfigurationError
  /\ configureCalls = 1
  /\ creations = 0
  /\ Len(preInit) = 2
  /\ preInit[1].method = "register"
  /\ preInit[2].method = "track"

\* C25: once disable() was called (or the facade was built with the disabled flag)
\* the facade stays disabled until enable() is called; while it is disabled no call
\* puts an item on the queue or reports an error; the items queued before stay
\* queued, and a flush() of the disabled facade sends them.
DisableDropsCalls ==
  /\ [][(disabled /\ ~disabled') => Enable]_vars
  /\ [][(disabled /\ disabled') =>
          (enqueued' = enqueued /\ closedErrors' = closedErrors)]_vars
  /\ [][Disable => (queue' = queue /\ sent' = sent /\ drained' = drained)]_vars
  /\ [][(disabled /\ configured /\ flushing = "null" /\ queue # <<>> /\ Flush) =>
          (Len(flights') = Len(flights) + 1 /\ flights'[Len(flights')].batch # <<>>)]_vars

\* the well-formed calls that build an event
EventCalls(rt) ==
  GoodTrackArgs(rt) \cup GoodIdentifyArgs \cup GoodGroupArgs(rt)
    \cup GoodRevenueArgs(rt) \cup GoodAliasArgs

\* the event carries every super-property, with the call's own value where the
\* call passes a property of the same key
CarriesSuperProperties(event, props, own) ==
  \A k \in DOMAIN props :
    /\ k \in DOMAIN event
    /\ event[k] = (IF k \in DOMAIN own THEN own[k] ELSE props[k])

\* C26: the event a track, identify, group, alias or revenue call builds and
\* enqueues (no beforeSend configured) contains every registered super-property,
\* and carries the call's own value where the call passes a property with the key
\* of a super-property.
EventsCarrySuperProperties ==
  [][\A c \in EventCalls(runtime) :
       (Accepting /\ beforeSend = NoHook /\ PublicCall(c)) =>
         /\ Len(events') = Len(events) + 1
         /\ CarriesSuperProperties(events'[Len(events')], superProperties,
                                   c.properties)]_vars

\* every call explored that is not configure()
AnyCalls(rt) ==
  GoodTrackArgs(rt) \cup GoodIdentifyArgs \cup GoodGroupArgs(rt) \cup GoodRevenueArgs(rt)
    \cup GoodAliasArgs \cup GoodLogArgs \cup RegisterCalls \cup UnregisterCalls
    \cup {Call("optOut"), Call("optIn"), Call("reset"), Call("resetSession")}

\* C27: the super-properties are empty once the facade is constructed or configured
\* (no register call buffered); on a configured facade register adds or overwrites
\* the given keys, unregister removes its key, the browser's reset clears all, and
\* no other call changes them.
SuperPropertiesLifecycle ==
  /\ [][(~configured /\ configured' /\ preInit = <<>>) =>
          superProperties' = EmptyBag]_vars
  /\ [][\A c \in AnyCalls(runtime) :
          (configured /\ PublicCall(c)) =>
            superProperties' =
              CASE c.method = "register" ->
                     [k \in DOMAIN superProperties \cup DOMAIN c.properties |->
                        IF k \in DOMAIN c.properties THEN c.properties[k]
                        ELSE superProperties[k]]
                [] c.method = "unregister" ->
                     [k \in DOMAIN superProperties \ {c.key} |-> superProperties[k]]
                [] c.method = "reset" -> EmptyBag
                [] OTHER -> superProperties]_vars
  /\ [][(configured /\ configured') =>
          (superProperties' # superProperties => callCount' = callCount + 1)]_vars

\* the number of the last call a replay has invoked
LastReplayed == IF replayed = <<>> THEN 0 ELSE replayed[Len(replayed)].args[1]

\* the calls pushed since the last replay that invoked anything
PushedSinceReplay == SubSeq(pushed, LastReplayed + 1, Len(pushed))

\* the last n elements of s
LastOf(s, n) == SubSeq(s, Max(1, Len(s) - n + 1), Len(s))

\* C28: calls made before configure() are buffered in a FIFO that is bounded (at 1000
\* entries on the facade) and drops the oldest entry on overflow: the buffer is at any
\* time the last maxSize calls pushed since the last replay, in the order they were
\* pushed.  A replay invokes the buffered calls in that order, each exactly once,
\* empties the buffer, and goes on with the next call when a call throws.
PreInitReplaysInOrder ==
  /\ [](PreInitMax = 1000)
  /\ [](Len(preInit) <= maxSize)
  /\ [](preInit = LastOf(PushedSinceReplay, maxSize))
  /\ [][pushed' = pushed => (replayed' = replayed \o preInit /\ preInit' = <<>>)]_vars
  /\ [](\A i, j \in 1..Len(replayed) : i < j => replayed[i].args[1] < replayed[j].args[1])

\* the oldest of three calls was dropped from a queue of two, the first replayed call
\* threw and the one after it was invoked all the same
PreInitReplaysInOrderWitness ==
  /\ maxSize = 2
  /\ Len(pushed) = 3
  /\ preInit = <<>>
  /\ replayed = <<pushed[2], pushed[3]>>
  /\ pushed[2].throws

\* the event the call builds, before any beforeSend function has seen it
Built(c) ==
  LET plain == Dispatch([Client EXCEPT !.beforeSend = NoHook], runtime, c)
  IN plain.events[Len(plain.events)]

\* the functions given, as a list
Given(fns) == IF fns.kind = "array" THEN fns.items ELSE <<fns.items[1]>>

\* the item after the first i functions of the list have been applied in turn
RECURSIVE Stage(_, _, _)
Stage(item, list, i) == IF i = 0 THEN item ELSE CallFn(list[i], Stage(item, list, i - 1))

\* the position of the first function that returns the drop signal, or the length
\* of the list when none does
StopsAt(item, list) ==
  LET drops == {i \in 1..Len(list) : Stage(item, list, i) = Null}
  IN IF drops = {} THEN Len(list) ELSE CHOOSE i \in drops : \A j \in drops : i <= j

\* C29: runBeforeSend applies the functions in list order, each to the result of the
\* one before; once a function returns the drop signal the result is drop, no later
\* function is invoked and the facade enqueues nothing; an empty list returns the
\* item unchanged, and a single function behaves as the list of that one function.
PipelineShortCircuits ==
  [][\A c \in EventCalls(runtime) :
       (configured /\ beforeSend.kind # "undefined" /\ PublicCall(c)) =>
         LET item == Built(c)
             list == Given(beforeSend)
             m == StopsAt(item, list)
             last == Stage(item, list, m)
         IN /\ hookCalls' = hookCalls \o SubSeq(list, 1, m)
            /\ events' = (IF last = Null THEN events ELSE Append(events, last))
            /\ list = <<>> => events' = Append(events, item)]_vars

\* the second of three functions dropped the event of the only call made: the third
\* was not invoked and nothing was enqueued
PipelineShortCircuitsWitness ==
  /\ runtime = "node"
  /\ beforeSend = HookArray(<<"setPlan", "drop", "copyPlan">>)
  /\ callCount = 1
  /\ hookCalls = <<"setPlan", "drop">>
  /\ events = <<>>

\* the browser calls that build an event for the user identify() stored
ImplicitUserCalls ==
  GoodTrackArgs("browser") \cup GoodGroupArgs("browser") \cup GoodRevenueArgs("browser")

\* the browser facade is configured and lets calls through to the batcher as built
Passing ==
  /\ runtime = "browser"
  /\ configured
  /\ ~disabled
  /\ ~optedOut
  /\ beforeSend = NoHook

\* the ids that are in use: the facade's own and those of the queued events
IdsInUse ==
  {deviceId, sessionId} \cup {events[i].device_id : i \in 1..Len(events)}
    \cup {events[i].session_id : i \in 1..Len(events)}

\* C30: on the browser facade identify(u), once past validation, stores u, and every
\* track, group or revenue event built afterwards carries user_id = u until the next
\* identify or reset(); reset() clears the user id, gives the facade a fresh device
\* id and a fresh session id and clears the super-properties, and the events already
\* queued stay as they were built.
IdentityCarried ==
  /\ [][\A c \in ImplicitUserCalls :
          (Passing /\ PublicCall(c)) =>
            /\ Len(events') = Len(events) + 1
            /\ events'[Len(events')].user_id = userId
            /\ SubSeq(events', 1, Len(events)) = events]_vars
  /\ [][\A c \in GoodIdentifyArgs :
          (Passing /\ PublicCall(c)) => userId' = c.userId]_vars
  /\ [][(configured /\ userId' # userId) =>
          \E c \in GoodIdentifyArgs \cup {Call("reset")} : PublicCall(c)]_vars
  /\ [][(runtime = "browser" /\ configured /\ PublicCall(Call("reset"))) =>
          /\ userId' = Undefined
          /\ deviceId' \notin IdsInUse
          /\ sessionId' \notin IdsInUse
          /\ deviceId' # sessionId'
          /\ superProperties' = EmptyBag
          /\ events' = events]_vars

\* C40: a disable() made on the browser facade before configure() is still in effect
\* after configure(): the session marker and the calls replayed from the pre-init
\* queue enqueue nothing, and neither does any later call, until enable() is called.
DisableSurvivesConfigure ==
  /\ [][(runtime = "browser" /\ ~configured /\ disabled /\ configured') =>
          (disabled' /\ enqueued' = enqueued)]_vars
  /\ [][(disabled /\ configured /\ ~disabled') => Enable]_vars
  /\ [][(disabled /\ configured /\ disabled') => enqueued' = enqueued]_vars

\* C35: every send(batch) the flush loop issues carries at least one item, and with
\* a collector that accepts every request a flush settles only on an empty queue,
\* for every batch size the configuration accepts and after any halving.
FlushMakesProgress ==
  /\ \A i \in 1..Len(flights) : flights[i].batch # <<>>
  /\ flushing = "resolved" => queue = <<>>

\* C33: drain() hands back every queued item in enqueue order, empties the queue and
\* starts no send; with a send in flight no item leaves the Batcher both through
\* drain() and through an accepted send, and the completion of the in-flight send
\* removes no item that was added after the drain.
DrainKeepsPathsApart ==
  /\ [][drained' # drained =>
          /\ drained' = drained \o queue
          /\ queue' = <<>>
          /\ flights' = flights]_vars
  /\ [](Range(sent) \cap Range(drained) = {})
  /\ [][\A i \in 1..Len(flights) :
          (/\ flights[i].phase \in {"resolved", "rejected"}
           /\ Range(flights[i].batch) \cap Range(drained) # {}
           /\ drained' = drained /\ flights' # flights
           /\ queue' = ResumeQueue(queue, flights[i]))
            => \A item \in Range(queue) \ Range(queue') :
                 \E d \in 1..Len(drained) : item <= drained[d]]_vars

\* the type the method called gives its event
MethodType(c) == IF c.method = "revenue" THEN "track" ELSE c.method

\* the user the facade puts in the event: the argument of identify and alias and of
\* every Node call, the stored id on the browser
EnvelopeUser(c) ==
  IF runtime = "node" \/ c.method \in {"identify", "alias"} THEN c.userId ELSE userId

\* C34: every event a track, identify, group, alias or revenue call enqueues has the
\* type of the method called and the device id, session id and user id the facade
\* set (and the event name for track), whatever keys the call's properties or the
\* registered super-properties hold: no property key overwrites an envelope field.
EnvelopeNotOverwritten ==
  [][\A c \in EventCalls(runtime) :
       (Accepting /\ beforeSend = NoHook /\ PublicCall(c)) =>
         /\ Len(events') = Len(events) + 1
         /\ LET event == events'[Len(events')]
            IN  /\ event.type = MethodType(c)
                /\ event.device_id = deviceId
                /\ event.session_id = sessionId
                /\ event.user_id = EnvelopeUser(c)
                /\ c.method = "track" => event.event = c.eventName]_vars

\* flight i received a 413 in this step
TooLargeStep(i) ==
  /\ Len(flights') = Len(flights)
  /\ flights'[i].tooLarge = flights[i].tooLarge + 1

\* doFlush resumed in this step after the send of flight i was rejected with the 413
TooLargeResumes(i) ==
  /\ flights[i].phase = "rejected"
  /\ flights[i].end = "tooLarge"
  /\ flights' = RemoveAt(flights, i)
  /\ rejects' = rejects + 1

\* C32: a 413 answer to a send halves the size of both batchers, once, and nothing
\* else changes a size; the rejected items stay queued, at the head of the queue as
\* long as no unload drained it; and every flush started afterwards sends the first
\* min(size, pending) items of the queue at the size then in force.
TooLargeHalvesBoth ==
  /\ [][\A i \in 1..Len(flights) :
          TooLargeStep(i) =>
            /\ size' = Halve(size)
            /\ logSize' = Halve(logSize)
            /\ queue' = queue]_vars
  /\ [][(size' # size \/ logSize' # logSize) =>
          \E i \in 1..Len(flights) : TooLargeStep(i)]_vars
  /\ [][\A i \in 1..Len(flights) :
          TooLargeResumes(i) =>
            /\ queue' = queue
            /\ drained = <<>> => IsPrefix(flights[i].batch, queue')]_vars
  /\ [][Len(flights') > Len(flights) =>
          flights'[Len(flights')].batch = Slice(queue', size')]_vars

\* a batch of two was answered with 413 and both batchers now send one item at a time
TooLargeHalvesBothWitness ==
  \E i \in 1..Len(flights) :
    /\ flights[i].phase = "rejected"
    /\ flights[i].tooLarge = 1
    /\ Len(flights[i].batch) = 2
    /\ size = 1
    /\ logSize = 1

\* a session marker for session id among the events
Marked(evs, id) ==
  \E i \in 1..Len(evs) :
    /\ evs[i].type = "context"
    /\ evs[i].session_id = id
    /\ "reason" \in DOMAIN evs[i]

\* C37: on a configured, enabled, opted-in, open browser facade every step that
\* changes the session identifier also enqueues a context event that carries the
\* new session id and a reason.
SessionChangesMarked ==
  [][(/\ runtime = "browser"
      /\ configured' /\ ~disabled' /\ ~optedOut' /\ ~facadeClosed'
      /\ sessionId' # sessionId)
       => Marked(events', sessionId')]_vars

\* ------------------------------------------------------- the SessionManager
(***************************************************************************)
(* One SessionManager (browser/src/session.ts) followed on its own, with a *)
(* clock, a document whose visibility changes, and an onNewSession         *)
(* callback that records what it is given.  Both revisions of the class    *)
(* are followed: the one whose idle check is a 60 s interval timer, and    *)
(* the one whose idle check is made by touch().  Times are milliseconds.   *)
(***************************************************************************)
\* `if (now - last < 1000) return; // cooldown`
Cooldown == 1000

\* setInterval(() => this.checkTimeout(), 60_000)
CheckInterval == 60000

SessionReasons == {"session_start", "session_timeout", "app_foreground"}

\* "timer": session.ts; "touch": the revision whose touch() makes the idle check
Revisions == {"timer", "touch"}

\* config.timeout: shorter and longer than the cooldown
Timeouts == {50, 30000}

\* how far the clock moves between two handlers
Delays == {500, CheckInterval}

\* the manager before its constructor ran; Date.now() is past the cooldown
Unmade(rev, timeout, visibility) ==
  [made |-> FALSE, revision |-> rev, timeout |-> timeout, now |-> Cooldown,
   advances |-> 0, visibility |-> visibility, hiddenAt |-> Cooldown,
   listening |-> FALSE, nextCheckAt |-> 0,
   sessionId |-> 0, nextId |-> 1, lastHiddenAt |-> 0, lastActivityAt |-> 0,
   lastContextAt |-> [r \in SessionReasons |-> 0], markers |-> <<>>]

\* generateId()
FreshId(sm) == [sm EXCEPT !.sessionId = sm.nextId, !.nextId = @ + 1]

\* an emitContext that knows no cooldown
emitContextNoCooldown(sm, reason) ==
  [sm EXCEPT !.lastContextAt[reason] = sm.now,
             !.markers = Append(@, [reason |-> reason, sessionId |-> sm.sessionId,
                                    at |-> sm.now])]

\* SessionManager.emitContext
emitContext(sm, reason) ==
  IF sm.now - sm.lastContextAt[reason] < Cooldown THEN sm
  ELSE [sm EXCEPT !.lastContextAt[reason] = sm.now,
                  !.markers = Append(@, [reason |-> reason, sessionId |-> sm.sessionId,
                                         at |-> sm.now])]

\* SessionManager.rotateSession
rotateSession(sm, reason) ==
  emitContext([FreshId(sm) EXCEPT !.lastActivityAt = sm.now], reason)

\* the constructor
constructor(sm) ==
  LET started == emitContext([FreshId(sm) EXCEPT !.made = TRUE,
                                                 !.lastActivityAt = sm.now],
                             "session_start")
  IN [started EXCEPT !.listening = TRUE, !.nextCheckAt = sm.now + CheckInterval]

\* SessionManager.touch, in either revision
touch(sm) ==
  IF sm.revision = "touch" /\ sm.now - sm.lastActivityAt > sm.timeout
    THEN [rotateSession(sm, "session_timeout") EXCEPT !.lastActivityAt = sm.now]
    ELSE [sm EXCEPT !.lastActivityAt = sm.now]

\* a visibility handler that never rotates
handleVisibilityNoRotation(sm) ==
  IF sm.visibility = "hidden" THEN [sm EXCEPT !.lastHiddenAt = sm.now]
  ELSE IF sm.lastHiddenAt > 0
    THEN [emitContext(sm, "app_foreground") EXCEPT !.lastHiddenAt = 0]
    ELSE [sm EXCEPT !.lastHiddenAt = 0]

\* SessionManager.handleVisibility with document.visibilityState = sm.visibility
handleVisibility(sm) ==
  IF sm.visibility = "hidden" THEN [sm EXCEPT !.lastHiddenAt = sm.now]
  ELSE IF sm.lastHiddenAt > 0 /\ sm.now - sm.lastHiddenAt > sm.timeout
    THEN [rotateSession(sm, "session_timeout") EXCEPT !.lastHiddenAt = 0]
  ELSE IF sm.lastHiddenAt > 0
    THEN [emitContext(sm, "app_foreground") EXCEPT !.lastHiddenAt = 0]
    ELSE [sm EXCEPT !.lastHiddenAt = 0]

\* SessionManager.checkTimeout
checkTimeout(sm) ==
  IF sm.now - sm.lastActivityAt > sm.timeout
    THEN rotateSession(sm, "session_timeout")
    ELSE sm

\* what a SessionManager on its own leaves alone
SessionFrame ==
  /\ UNCHANGED bvars
  /\ UNCHANGED fvars
  /\ UNCHANGED kvars
  /\ UNCHANGED logSize

\* new SessionManager(config)
SessionConstruct ==
  /\ ~sessionManager.made
  /\ sessionManager' = constructor(sessionManager)

\* time passes
SessionAdvance ==
  /\ sessionManager.made
  /\ sessionManager.advances < MaxAdvances
  /\ \E d \in Delays :
       sessionManager' = [sessionManager EXCEPT !.now = @ + d, !.advances = @ + 1]

SessionTouch ==
  /\ sessionManager.made
  /\ sessionManager' = touch(sessionManager)

\* SessionManager.destroy: the listener is removed and the interval cleared
SessionDestroy ==
  /\ sessionManager.made
  /\ sessionManager' = [sessionManager EXCEPT !.listening = FALSE]

\* the document changes its visibility and dispatches visibilitychange
SessionVisibility ==
  /\ sessionManager.made
  /\ LET turned == [sessionManager EXCEPT
                      !.visibility = IF @ = "hidden" THEN "visible" ELSE "hidden",
                      !.hiddenAt = IF sessionManager.visibility = "visible"
                                     THEN sessionManager.now ELSE @]
     IN sessionManager' = IF sessionManager.listening THEN handleVisibility(turned)
                          ELSE turned

\* the interval timer fires
SessionCheck ==
  /\ sessionManager.made
  /\ sessionManager.revision = "timer"
  /\ sessionManager.listening
  /\ sessionManager.now >= sessionManager.nextCheckAt
  /\ sessionManager' = [checkTimeout(sessionManager) EXCEPT !.nextCheckAt = @ + CheckInterval]

SessionInit ==
  /\ queue = <<>>
  /\ closed = FALSE
  /\ timer = TRUE
  /\ flushing = "null"
  /\ size = 1
  /\ maxQueueSize = 1
  /\ maxRetries = 0
  /\ runtime = "browser"
  /\ flights = <<>>
  /\ joined = FALSE
  /\ nextItem = 1
  /\ overflowCalls = 0
  /\ enqueued = <<>>
  /\ sent = <<>>
  /\ drained = <<>>
  /\ rejects = 0
  /\ unaccepted = 0
  /\ configured = FALSE
  /\ facadeClosed = FALSE
  /\ disabled = FALSE
  /\ closeCall = "none"
  /\ closeTimer = FALSE
  /\ work = "none"
  /\ preInit = <<>>
  /\ closedErrors = 0
  /\ timeoutErrors = 0
  /\ ClientIdle
  /\ logSize = size
  /\ \E rev \in Revisions, timeout \in Timeouts, visibility \in {"visible", "hidden"} :
       sessionManager = Unmade(rev, timeout, visibility)

SessionNext ==
  \/ SessionConstruct /\ SessionFrame
  \/ SessionAdvance /\ SessionFrame
  \/ SessionTouch /\ SessionFrame
  \/ SessionDestroy /\ SessionFrame
  \/ SessionVisibility /\ SessionFrame
  \/ SessionCheck /\ SessionFrame

SessionSpec == SessionInit /\ [][SessionNext]_vars

\* this step makes an emit attempt with the reason: the constructor, a rotation,
\* or a return to the foreground that does not rotate
Attempted(reason) ==
  CASE reason = "session_start" ->
         ~sessionManager.made /\ sessionManager'.made
    [] reason = "session_timeout" ->
         sessionManager.made /\ sessionManager'.sessionId # sessionManager.sessionId
    [] reason = "app_foreground" ->
         /\ sessionManager.made /\ sessionManager.listening
         /\ sessionManager.visibility = "hidden" /\ sessionManager'.visibility = "visible"
         /\ sessionManager.lastHiddenAt > 0
         /\ sessionManager'.sessionId = sessionManager.sessionId

\* onNewSession is called in this step, once, with the reason and the session id
Delivered(reason) ==
  sessionManager'.markers =
    Append(sessionManager.markers,
           [reason |-> reason, sessionId |-> sessionManager'.sessionId,
            at |-> sessionManager'.now])

\* a marker with the reason was delivered less than the cooldown ago
WithinCooldown(reason) ==
  \E i \in 1..Len(sessionManager.markers) :
    /\ sessionManager.markers[i].reason = reason
    /\ sessionManager'.now - sessionManager.markers[i].at < Cooldown

\* C39: two markers with the same reason are never delivered to onNewSession less
\* than 1000 ms apart; an emit attempt within the cooldown of the last marker of its
\* reason calls nothing, and every other attempt is delivered, whatever markers
\* with other reasons were delivered before.
CooldownPerReason ==
  /\ [](sessionManager.made =>
          \A i, j \in 1..Len(sessionManager.markers) :
            (i < j /\ sessionManager.markers[i].reason = sessionManager.markers[j].reason)
              => sessionManager.markers[j].at - sessionManager.markers[i].at >= Cooldown)
  /\ [][\A reason \in SessionReasons :
          Attempted(reason) =>
            IF WithinCooldown(reason)
              THEN sessionManager'.markers = sessionManager.markers
              ELSE Delivered(reason)]_vars

\* two markers with different reasons were delivered within the cooldown, and the
\* marker of the latest rotation was held back
CooldownPerReasonWitness ==
  /\ sessionManager.made
  /\ \E i, j \in 1..Len(sessionManager.markers) :
       /\ sessionManager.markers[i].reason # sessionManager.markers[j].reason
       /\ sessionManager.markers[j].at - sessionManager.markers[i].at < Cooldown
       /\ sessionManager.markers[j].at >= sessionManager.markers[i].at
  /\ \A i \in 1..Len(sessionManager.markers) :
       sessionManager.markers[i].sessionId # sessionManager.sessionId

\* the document turns from hidden to visible in this step and the manager listens
Returns ==
  /\ sessionManager.made /\ sessionManager.listening
  /\ sessionManager.visibility = "hidden" /\ sessionManager'.visibility = "visible"

\* the session id is replaced by one never used before
Rotates ==
  /\ sessionManager'.sessionId # sessionManager.sessionId
  /\ \A i \in 1..Len(sessionManager.markers) :
       sessionManager.markers[i].sessionId # sessionManager'.sessionId

KeepsSession == sessionManager'.sessionId = sessionManager.sessionId

\* the markers delivered so far with the reason
Count(reason) ==
  Cardinality({i \in 1..Len(sessionManager.markers) :
                 sessionManager.markers[i].reason = reason})

\* the constructor emits session_start once and nothing emits it again
StartsOnce ==
  /\ [](sessionManager.made => Count("session_start") = 1)
  /\ [][(~sessionManager.made /\ sessionManager'.made) => Delivered("session_start")]_vars

\* after destroy() neither a visibility change nor the timer produces a marker
DestroyedIsSilent ==
  [][(/\ sessionManager.made /\ ~sessionManager.listening
      /\ (sessionManager'.visibility # sessionManager.visibility
            \/ sessionManager.revision = "timer"))
       => sessionManager'.markers = sessionManager.markers]_vars

\* C38, as stated: session_start exactly once on construction; a return to visible
\* rotates the session id and emits session_timeout if the page was hidden longer
\* than the timeout, and otherwise emits app_foreground and keeps the session id;
\* the idle check rotates, with session_timeout, only when the time since the last
\* activity exceeds the timeout; after destroy() no visibility change or timer
\* produces a marker.
SessionManagerMarks ==
  /\ StartsOnce
  /\ [][Returns =>
          IF sessionManager.now - sessionManager.hiddenAt > sessionManager.timeout
            THEN Rotates /\ Delivered("session_timeout")
            ELSE KeepsSession /\ Delivered("app_foreground")]_vars
  /\ [][(sessionManager.made /\ ~KeepsSession /\ ~Returns) =>
          /\ sessionManager.now - sessionManager.lastActivityAt > sessionManager.timeout
          /\ Rotates /\ Delivered("session_timeout")]_vars
  /\ DestroyedIsSilent

\* the attempt with the reason is delivered unless the cooldown holds it back
Emitted(reason) ==
  IF WithinCooldown(reason)
    THEN sessionManager'.markers = sessionManager.markers
    ELSE Delivered(reason)

\* C38, amended: as stated, except that a marker is held back when one with the same
\* reason was delivered less than 1000 ms before (the session id still rotates), and
\* that a return to visible after a hide the manager did not see (it was constructed
\* on a hidden page) emits nothing and keeps the session id.
SessionManagerMarksUnlessCooldown ==
  /\ StartsOnce
  /\ [][Returns =>
          IF sessionManager.lastHiddenAt = 0
            THEN KeepsSession /\ sessionManager'.markers = sessionManager.markers
          ELSE IF sessionManager.now - sessionManager.hiddenAt > sessionManager.timeout
            THEN Rotates /\ Emitted("session_timeout")
            ELSE KeepsSession /\ Emitted("app_foreground")]_vars
  /\ [][(sessionManager.made /\ ~KeepsSession /\ ~Returns) =>
          /\ sessionManager.now - sessionManager.lastActivityAt > sessionManager.timeout
          /\ Rotates /\ Emitted("session_timeout")]_vars
  /\ DestroyedIsSilent

\* a short absence gave app_foreground, a long one rotated with session_timeout, and
\* the manager was destroyed afterwards
SessionManagerMarksWitness ==
  /\ sessionManager.made
  /\ ~sessionManager.listening
  /\ \E i, j \in 1..Len(sessionManager.markers) :
       /\ i < j
       /\ sessionManager.markers[i].reason = "app_foreground"
       /\ sessionManager.markers[j].reason = "session_timeout"
       /\ sessionManager.markers[j].sessionId = sessionManager.sessionId
       /\ sessionManager.markers[i].sessionId # sessionManager.sessionId

\* the session_start markers for the session among the events
Starts(evs, id) ==
  {i \in 1..Len(evs) : /\ evs[i].type = "context"
                       /\ evs[i].reason = "session_start"
                       /\ evs[i].session_id = id}

\* C36: a configure() of the browser facade that goes through, the first one or one
\* made after close() has returned, leaves the facade open with exactly one
\* session_start context event for the new session enqueued (the facade being
\* enabled and opted in), and the calls made afterwards are accepted.
ReconfigureStartsSession ==
  /\ [][(/\ runtime = "browser"
         /\ ~configured /\ configured'
         /\ ~disabled' /\ ~storage.optOut)
          => /\ ~facadeClosed'
             /\ Cardinality(Starts(events', sessionId')) = 1]_vars
  /\ [][\A c \in GoodTrackArgs("browser") :
          (/\ runtime = "browser" /\ closeCall = "returned"
           /\ configured /\ ~disabled /\ ~optedOut /\ beforeSend = NoHook
           /\ PublicCall(c))
            => /\ Len(events') = Len(events) + 1
               /\ errors' = errors]_vars

\* the calls buffered before configure() hold no optIn()
NoOptInBuffered == \A i \in 1..Len(preInit) : preInit[i].method # "optIn"

\* the first call made before configure() was optOut()
OptOutBufferedFirst == preInit # <<>> /\ Head(preInit).method = "optOut"

\* C31: while the browser facade is opted out, by an optOut() call or by the
\* persisted flag that configure() loads, no event, log or session marker is
\* enqueued; optIn() clears the flag, removes the persisted one and restores
\* enqueueing; and the flag isOptedOut() returns is the persisted one.
OptOutSilences ==
  /\ [][(runtime = "browser" /\ configured /\ optedOut /\ optedOut') =>
          (events' = events /\ logs' = logs)]_vars
  /\ [][(/\ runtime = "browser" /\ ~configured /\ configured'
         /\ (storage.optOut \/ OptOutBufferedFirst) /\ NoOptInBuffered)
          => (optedOut' /\ events' = <<>> /\ logs' = <<>>)]_vars
  /\ [][(runtime = "browser" /\ configured /\ PublicCall(Call("optOut"))) =>
          (optedOut' /\ storage'.optOut /\ events' = events /\ logs' = logs)]_vars
  /\ [][(runtime = "browser" /\ configured /\ PublicCall(Call("optIn"))) =>
          (~optedOut' /\ ~storage'.optOut)]_vars
  /\ [][\A c \in GoodTrackArgs("browser") :
          (/\ runtime = "browser" /\ configured /\ ~optedOut /\ ~disabled
           /\ ~facadeClosed /\ beforeSend = NoHook /\ PublicCall(c))
            => Len(events') = Len(events) + 1]_vars
  /\ [](runtime = "browser" /\ configured => optedOut = storage.optOut)

====
